---------------------------- MODULE Spec2Model ----------------------------
(***************************************************************************)
(* A model of the decision core of aaholmes/multiagent-defense             *)
(* (crate interception_core): the geometry kernel, the value types and the *)
(* per-defender controller with its three-state FSM.                       *)
(*                                                                         *)
(* f64 values are modelled in fixed point: the integer n stands for the    *)
(* real n / One.  Every arithmetic operation rounds to the grid, as every  *)
(* f64 operation rounds to the nearest float.  f64::INFINITY is a value of *)
(* its own that no finite computation produces.                            *)
(***************************************************************************)
EXTENDS Integers, Sequences, FiniteSets, TLC

(***************************************************************************)
(* f64 arithmetic in fixed point                                           *)
(***************************************************************************)

\* The image of 1.0.  The grid step 1/One is 1e-4, the finite-difference step
\* h of calculate_engage_velocity, the smallest quantity the controller uses.
One == 10000

\* f64::INFINITY
INFINITY == 2147483647

\* f64::NAN, the result of 0.0 / 0.0 and of f64::sqrt on a negative value
NAN == -2147483647

\* std::f64::consts::PI
PI == 31416

\* The tolerance 1e-10 of the predicates: the least positive value of the grid.
EPS == 1

Abs(a) == IF a < 0 THEN -a ELSE a

Min(a, b) == IF a <= b THEN a ELSE b

Max(a, b) == IF a >= b THEN a ELSE b

\* `let x = e;`: F with its argument bound to the value of e
Bind(e, F(_)) == CHOOSE r \in { F(x) : x \in {e} } : TRUE

\* f64 addition and subtraction: NaN propagates
Add(a, b) == IF a = NAN \/ b = NAN THEN NAN ELSE a + b

Sub(a, b) == IF a = NAN \/ b = NAN THEN NAN ELSE a - b

\* the f64 comparisons: false as soon as an operand is NaN
Lt(a, b) == a # NAN /\ b # NAN /\ a < b

Lte(a, b) == a # NAN /\ b # NAN /\ a <= b

Gte(a, b) == a # NAN /\ b # NAN /\ a >= b

\* a * b of two non-negative values, rounded to nearest; the operands are
\* split so that no intermediate product leaves the 32-bit range.
MulN(a, b) ==
    LET ah == a \div One
        al == a % One
        bh == b \div One
        bl == b % One
    IN  ah * bh * One + ah * bl + al * bh + (al * bl + One \div 2) \div One

\* f64 multiplication
Mul(a, b) ==
    IF a = NAN \/ b = NAN THEN NAN
    ELSE IF (a < 0) # (b < 0) THEN -MulN(Abs(a), Abs(b))
    ELSE MulN(Abs(a), Abs(b))

\* n digits (base 10) of r / b after the point, for 0 <= r < b
RECURSIVE FracDigits(_, _, _)
FracDigits(r, b, n) ==
    IF n = 0 THEN 0
    ELSE LET d == (r * 10) \div b
             rest == (r * 10) % b
         IN  d * (10 ^ (n - 1)) + FracDigits(rest, b, n - 1)

\* a / b of a non-negative a and a positive b, by long division
DivN(a, b) == (a \div b) * One + FracDigits(a % b, b, 4)

\* f64 division; 0.0 / 0.0 is NaN (no other division by zero occurs)
Div(a, b) ==
    IF a = NAN \/ b = NAN \/ (a = 0 /\ b = 0) THEN NAN
    ELSE IF (a < 0) # (b < 0) THEN -DivN(Abs(a), Abs(b))
    ELSE DivN(Abs(a), Abs(b))

\* Newton's iteration for the integer square root, from a guess x >= sqrt(n)
RECURSIVE Newton(_, _)
Newton(n, x) ==
    LET y == (x + n \div x) \div 2
    IN  IF y >= x THEN x ELSE Newton(n, y)

\* the largest r with r * r <= n
IntSqrt(n) ==
    IF n = 0 THEN 0
    ELSE Newton(n, IF n < 10000 THEN 100
                   ELSE IF n < 1000000 THEN 1000
                   ELSE IF n < 100000000 THEN 10000
                   ELSE 46341)

\* f64::sqrt of a non-negative value: 0 exactly at 0, rounded down elsewhere.
\* The result is the largest r with r * r <= a * One; where a * One leaves
\* the 32-bit range it is 100 * s + t, with s the integer root of a.
Sqrt(a) ==
    IF a = NAN THEN NAN
    ELSE IF a < 214748 THEN IntSqrt(a * One)
    ELSE Bind(IntSqrt(a), LAMBDA s :
         Bind(One * (a - s * s), LAMBDA rem :
         Bind(Min(99, rem \div (200 * s)), LAMBDA t0 :
         100 * s + (IF 200 * s * t0 + t0 * t0 > rem THEN t0 - 1 ELSE t0))))

\* f64::acos on [-1, 1] (Abramowitz-Stegun 4.4.45, exact at 1: acos(1) = 0)
AcosN(c) ==
    LET p == 15707 + Mul(c, -2121 + Mul(c, 743 + Mul(c, -187)))
    IN  Mul(Sqrt(One - c), p)

Acos(c) == IF c >= 0 THEN AcosN(c) ELSE PI - AcosN(-c)


(***************************************************************************)
(* structs.rs: the value types                                             *)
(***************************************************************************)

\* Point::new
Point(px, py) == [x |-> px, y |-> py]

\* Circle::new
Circle(c, r) == [center |-> c, radius |-> r]

\* AgentState::new
AgentState(pos, vel) == [position |-> pos, velocity |-> vel]

\* WorldState::new
WorldState(ds, i, z) == [defenders |-> ds, intruder |-> i, protected_zone |-> z]

\* SimConfig::new
SimConfig(lr, vd, vi, w, e) ==
    [learning_rate |-> lr, defender_speed |-> vd, intruder_speed |-> vi,
     w_repel |-> w, epsilon |-> e]

\* The variants the controller matches on
ControlState == {"Travel", "Engage", "Intercept"}

\* Point::distance_to
distance_to(p, q) ==
    LET ex == Sub(p.x, q.x)
        ey == Sub(p.y, q.y)
    IN  Sqrt(Add(Mul(ex, ex), Mul(ey, ey)))

\* Point::magnitude
magnitude(p) == Sqrt(Add(Mul(p.x, p.x), Mul(p.y, p.y)))

\* Point::normalize
normalize(p) ==
    Bind(Sqrt(Add(Mul(p.x, p.x), Mul(p.y, p.y))), LAMBDA mag :
    IF mag = 0 THEN Point(0, 0)
    ELSE Point(Div(p.x, mag), Div(p.y, mag)))

\* Circle::intersects without the early return on an infinite radius: the
\* comparison distance <= inf is then true
intersects_Unguarded(self, other) ==
    IF self.radius = INFINITY \/ other.radius = INFINITY THEN TRUE
    ELSE Lte(distance_to(self.center, other.center),
             Add(self.radius, other.radius))

\* Circle::intersects
intersects(self, other) ==
    IF self.radius = INFINITY \/ other.radius = INFINITY THEN FALSE
    ELSE Lte(distance_to(self.center, other.center),
             Add(self.radius, other.radius))

\* Circle::contains_point
contains_point(self, point) ==
    IF self.radius = INFINITY THEN FALSE
    ELSE Lte(distance_to(self.center, point), self.radius)

\* SimConfig::speed_ratio
speed_ratio(config) == Div(config.defender_speed, config.intruder_speed)

(***************************************************************************)
(* geometry.rs: the geometry kernel                                        *)
(***************************************************************************)

\* calculate_apollonian_circle with d2 = d k / (1 + k), the far point at the
\* near point's distance
calculate_apollonian_circle_NearTwice(defender_pos, intruder_pos, ratio) ==
    IF Abs(ratio - One) < EPS
    THEN Circle(Point(Div(defender_pos.x + intruder_pos.x, 2 * One),
                      Div(defender_pos.y + intruder_pos.y, 2 * One)),
                INFINITY)
    ELSE
    Bind(ratio, LAMBDA k :
    Bind(intruder_pos.x - defender_pos.x, LAMBDA dx :
    Bind(intruder_pos.y - defender_pos.y, LAMBDA dy :
    Bind(Sqrt(Mul(dx, dx) + Mul(dy, dy)), LAMBDA d :
    IF k < One
    THEN Bind(Div(dx, d), LAMBDA ux :
         Bind(Div(dy, d), LAMBDA uy :
         Bind(Div(Mul(d, k), One + k), LAMBDA d1 :
         Bind(Point(Add(defender_pos.x, Mul(d1, ux)),
                    Add(defender_pos.y, Mul(d1, uy))), LAMBDA p1 :
         Bind(Div(Mul(d, k), One + k), LAMBDA d2 :
         Bind(Point(Sub(defender_pos.x, Mul(d2, ux)),
                    Sub(defender_pos.y, Mul(d2, uy))), LAMBDA p2 :
         Bind(Point(Div(Add(p1.x, p2.x), 2 * One),
                    Div(Add(p1.y, p2.y), 2 * One)), LAMBDA center :
         Circle(center, distance_to(center, p1)))))))))
    ELSE Bind(Div(k, k + One), LAMBDA t1 :
         Bind(Div(k, k - One), LAMBDA t2 :
         Bind(Point(defender_pos.x + Mul(t1, dx),
                    defender_pos.y + Mul(t1, dy)), LAMBDA p1 :
         Bind(Point(defender_pos.x + Mul(t2, dx),
                    defender_pos.y + Mul(t2, dy)), LAMBDA p2 :
         Bind(Point(Div(p1.x + p2.x, 2 * One),
                    Div(p1.y + p2.y, 2 * One)), LAMBDA center :
         Circle(center, distance_to(center, p1)))))))))))

\* calculate_apollonian_circle
calculate_apollonian_circle(defender_pos, intruder_pos, ratio) ==
    IF Abs(ratio - One) < EPS
    THEN Circle(Point(Div(defender_pos.x + intruder_pos.x, 2 * One),
                      Div(defender_pos.y + intruder_pos.y, 2 * One)),
                INFINITY)
    ELSE
    Bind(ratio, LAMBDA k :
    Bind(intruder_pos.x - defender_pos.x, LAMBDA dx :
    Bind(intruder_pos.y - defender_pos.y, LAMBDA dy :
    Bind(Sqrt(Mul(dx, dx) + Mul(dy, dy)), LAMBDA d :
    IF k < One
    THEN Bind(Div(dx, d), LAMBDA ux :
         Bind(Div(dy, d), LAMBDA uy :
         Bind(Div(Mul(d, k), One + k), LAMBDA d1 :
         Bind(Point(Add(defender_pos.x, Mul(d1, ux)),
                    Add(defender_pos.y, Mul(d1, uy))), LAMBDA p1 :
         Bind(Div(Mul(d, k), One - k), LAMBDA d2 :
         Bind(Point(Sub(defender_pos.x, Mul(d2, ux)),
                    Sub(defender_pos.y, Mul(d2, uy))), LAMBDA p2 :
         Bind(Point(Div(Add(p1.x, p2.x), 2 * One),
                    Div(Add(p1.y, p2.y), 2 * One)), LAMBDA center :
         Circle(center, distance_to(center, p1)))))))))
    ELSE Bind(Div(k, k + One), LAMBDA t1 :
         Bind(Div(k, k - One), LAMBDA t2 :
         Bind(Point(defender_pos.x + Mul(t1, dx),
                    defender_pos.y + Mul(t1, dy)), LAMBDA p1 :
         Bind(Point(defender_pos.x + Mul(t2, dx),
                    defender_pos.y + Mul(t2, dy)), LAMBDA p2 :
         Bind(Point(Div(p1.x + p2.x, 2 * One),
                    Div(p1.y + p2.y, 2 * One)), LAMBDA center :
         Circle(center, distance_to(center, p1)))))))))))

\* calculate_apollonian_circle of the top-level crate (src/src/geometry.rs)
legacy_calculate_apollonian_circle(defender_pos, intruder_pos, ratio) ==
    IF ratio = One
    THEN Circle(Point(Div(defender_pos.x + intruder_pos.x, 2 * One),
                      Div(defender_pos.y + intruder_pos.y, 2 * One)),
                INFINITY)
    ELSE
    Bind(ratio, LAMBDA k :
    Bind(Mul(k, k), LAMBDA k_sq :
    Bind(distance_to(defender_pos, intruder_pos), LAMBDA d :
    Bind(Div(Mul(k, d), Abs(k_sq - One)), LAMBDA radius :
    Bind(Div(k_sq, k_sq - One), LAMBDA t :
    Circle(Point(Div(defender_pos.x + Mul(t, intruder_pos.x), One + t),
                 Div(defender_pos.y + Mul(t, intruder_pos.y), One + t)),
           radius))))))

\* calculate_arc_intersection_length
calculate_arc_intersection_length(circle1, circle2) ==
    IF ~intersects(circle1, circle2)
       \/ circle1.radius = INFINITY \/ circle2.radius = INFINITY
    THEN 0
    ELSE
    Bind(distance_to(circle1.center, circle2.center), LAMBDA distance :
    IF distance + circle1.radius <= circle2.radius
    THEN Mul(Mul(2 * One, PI), circle1.radius)
    ELSE IF distance + circle2.radius <= circle1.radius
    THEN 0
    ELSE
    Bind(Div(Mul(circle1.radius, circle1.radius)
               + Mul(distance, distance)
               - Mul(circle2.radius, circle2.radius),
             Mul(Mul(2 * One, circle1.radius), distance)), LAMBDA raw :
    Bind(Min(Max(raw, -One), One), LAMBDA cos_half_angle :
    Bind(Acos(cos_half_angle), LAMBDA half_angle :
    Bind(Mul(2 * One, half_angle), LAMBDA full_angle :
    Mul(circle1.radius, full_angle))))))

\* circle_intersection_points: the sequence of 0, 1 or 2 points
circle_intersection_points(circle1, circle2) ==
    IF ~intersects(circle1, circle2)
       \/ circle1.radius = INFINITY \/ circle2.radius = INFINITY
    THEN << >>
    ELSE
    Bind(distance_to(circle1.center, circle2.center), LAMBDA d :
    IF d = 0 /\ Abs(circle1.radius - circle2.radius) < EPS
    THEN << >>
    ELSE IF d + Min(circle1.radius, circle2.radius)
              < Max(circle1.radius, circle2.radius)
    THEN << >>
    ELSE
    Bind(Div(Mul(circle1.radius, circle1.radius)
               - Mul(circle2.radius, circle2.radius) + Mul(d, d),
             Mul(2 * One, d)), LAMBDA a :
    Bind(Mul(circle1.radius, circle1.radius) - Mul(a, a), LAMBDA hsq :
    \* f64::sqrt of a negative value is NaN; NaN < 1e-10 is false and every
    \* sum with NaN is NaN
    Bind(IF hsq < 0 THEN NAN ELSE Sqrt(hsq), LAMBDA h :
    Bind(Point(circle1.center.x
                 + Div(Mul(a, circle2.center.x - circle1.center.x), d),
               circle1.center.y
                 + Div(Mul(a, circle2.center.y - circle1.center.y), d)),
         LAMBDA p :
    IF h # NAN /\ Abs(h) < EPS THEN <<p>>
    ELSE IF h = NAN THEN << Point(NAN, NAN), Point(NAN, NAN) >>
    ELSE
    << Point(p.x + Div(Mul(h, circle2.center.y - circle1.center.y), d),
             p.y - Div(Mul(h, circle2.center.x - circle1.center.x), d)),
       Point(p.x - Div(Mul(h, circle2.center.y - circle1.center.y), d),
             p.y + Div(Mul(h, circle2.center.x - circle1.center.x), d)) >>)))))

\* sort_by on the t of at most two (t, point) pairs
SortByT(v) ==
    IF Len(v) = 2 /\ v[2].t < v[1].t THEN <<v[2], v[1]>> ELSE v

\* calculate_line_segment_circle_intersection: << >> is None, <<p>> is Some(p)
calculate_line_segment_circle_intersection(p1, p2, circle) ==
    IF circle.radius = INFINITY THEN << >>
    ELSE
    Bind(p2.x - p1.x, LAMBDA dx :
    Bind(p2.y - p1.y, LAMBDA dy :
    Bind(Sub(p1.x, circle.center.x), LAMBDA fx :
    Bind(Sub(p1.y, circle.center.y), LAMBDA fy :
    Bind(Mul(dx, dx) + Mul(dy, dy), LAMBDA a :
    Bind(Mul(2 * One, Add(Mul(fx, dx), Mul(fy, dy))), LAMBDA b :
    Bind(Sub(Add(Mul(fx, fx), Mul(fy, fy)),
             Mul(circle.radius, circle.radius)), LAMBDA c :
    Bind(Sub(Mul(b, b), Mul(Mul(4 * One, a), c)), LAMBDA discriminant :
    IF Lt(discriminant, 0) THEN << >>
    ELSE IF Abs(a) < EPS THEN << >>
    ELSE
    Bind(Sqrt(discriminant), LAMBDA sqrt_discriminant :
    Bind(Div(Sub(Sub(0, b), sqrt_discriminant), Mul(2 * One, a)), LAMBDA t1 :
    Bind(Div(Add(Sub(0, b), sqrt_discriminant), Mul(2 * One, a)), LAMBDA t2 :
    LET hit(t) == IF Gte(t, 0) /\ Lte(t, One)
                  THEN << [t |-> t,
                           p |-> Point(p1.x + Mul(t, dx), p1.y + Mul(t, dy))] >>
                  ELSE << >>
    IN  Bind(SortByT(hit(t1) \o hit(t2)), LAMBDA valid_intersections :
        IF valid_intersections = << >> THEN << >>
        ELSE << valid_intersections[1].p >>))))))))))))

(***************************************************************************)
(* controller.rs: the defender controller                                  *)
(***************************************************************************)

\* determine_next_control_state without the early return that keeps Intercept
determine_next_control_state_NoLatch(current_state, apollonian_circle, protected_zone, intruder_pos, protected_center) ==
    IF calculate_line_segment_circle_intersection(
           intruder_pos, protected_center, apollonian_circle) # << >>
    THEN "Intercept"
    ELSE IF intersects(apollonian_circle, protected_zone) THEN "Engage"
    ELSE "Travel"

\* determine_next_control_state with the zone test ahead of the segment test
determine_next_control_state_EngageFirst(current_state, apollonian_circle, protected_zone, intruder_pos, protected_center) ==
    IF current_state = "Intercept" THEN "Intercept"
    ELSE IF intersects(apollonian_circle, protected_zone) THEN "Engage"
    ELSE IF calculate_line_segment_circle_intersection(
                intruder_pos, protected_center, apollonian_circle) # << >>
    THEN "Intercept"
    ELSE "Travel"

\* determine_next_control_state with an Engage that is kept once entered
determine_next_control_state_Sticky(current_state, apollonian_circle, protected_zone, intruder_pos, protected_center) ==
    IF current_state = "Intercept" THEN "Intercept"
    ELSE IF calculate_line_segment_circle_intersection(
                intruder_pos, protected_center, apollonian_circle) # << >>
    THEN "Intercept"
    ELSE IF current_state = "Engage" THEN "Engage"
    ELSE IF intersects(apollonian_circle, protected_zone) THEN "Engage"
    ELSE "Travel"

\* determine_next_control_state
determine_next_control_state(current_state, apollonian_circle, protected_zone, intruder_pos, protected_center) ==
    IF current_state = "Intercept" THEN "Intercept"
    ELSE IF calculate_line_segment_circle_intersection(
                intruder_pos, protected_center, apollonian_circle) # << >>
    THEN "Intercept"
    ELSE IF intersects(apollonian_circle, protected_zone) THEN "Engage"
    ELSE "Travel"

\* calculate_travel_velocity
calculate_travel_velocity(apollonian_center, goal_center, max_speed) ==
    Bind(Point(Sub(goal_center.x, apollonian_center.x),
               Sub(goal_center.y, apollonian_center.y)), LAMBDA direction :
    Bind(normalize(direction), LAMBDA normalized :
    Point(Mul(normalized.x, max_speed), Mul(normalized.y, max_speed))))

\* calculate_coverage_arc
calculate_coverage_arc(apollonian_circle, protected_zone) ==
    calculate_arc_intersection_length(apollonian_circle, protected_zone)

\* calculate_overlap_arc
calculate_overlap_arc(defender1_circle, defender2_circle, protected_zone) ==
    IF circle_intersection_points(defender1_circle, defender2_circle) = << >>
    THEN 0
    ELSE
    Bind(calculate_coverage_arc(defender1_circle, protected_zone), LAMBDA coverage1 :
    Bind(calculate_coverage_arc(defender2_circle, protected_zone), LAMBDA coverage2 :
    IF coverage1 > 0 /\ coverage2 > 0
    THEN Bind(distance_to(defender1_circle.center, defender2_circle.center),
              LAMBDA distance_between_centers :
         Bind(defender1_circle.radius + defender2_circle.radius,
              LAMBDA combined_radii :
         IF distance_between_centers < combined_radii
         THEN Bind(Div(combined_radii - distance_between_centers,
                       combined_radii), LAMBDA overlap_fraction :
              Mul(overlap_fraction, Min(coverage1, coverage2)))
         ELSE 0))
    ELSE 0))

\* the overlap penalty summed over the defenders from index j on, skipping
\* defender_index (the for loop of calculate_loss_engage)
RECURSIVE OverlapPenalty(_, _, _, _, _)
OverlapPenalty(world_state, defender_index, config, apollonian_circle, j) ==
    IF j > Len(world_state.defenders) THEN 0
    ELSE IF j = defender_index
    THEN OverlapPenalty(world_state, defender_index, config, apollonian_circle, j + 1)
    ELSE
    Bind(calculate_apollonian_circle(world_state.defenders[j].position,
                                     world_state.intruder.position,
                                     speed_ratio(config)), LAMBDA other_apollonian :
    Bind(calculate_overlap_arc(apollonian_circle, other_apollonian,
                               world_state.protected_zone), LAMBDA overlap :
    (IF overlap > config.epsilon THEN overlap - config.epsilon ELSE 0)
      + OverlapPenalty(world_state, defender_index, config,
                       apollonian_circle, j + 1)))

\* calculate_loss_engage
calculate_loss_engage(world_state, defender_index, config) ==
    Bind(world_state.defenders[defender_index], LAMBDA defender :
    Bind(calculate_apollonian_circle(defender.position,
                                     world_state.intruder.position,
                                     speed_ratio(config)), LAMBDA apollonian_circle :
    Bind(calculate_coverage_arc(apollonian_circle,
                                world_state.protected_zone), LAMBDA coverage :
    Bind(OverlapPenalty(world_state, defender_index, config,
                        apollonian_circle, 1), LAMBDA overlap_penalty :
    Mul(config.w_repel, overlap_penalty) - coverage))))

\* calculate_gradient: symmetric finite differences on clones of the world
calculate_gradient(world_state, defender_index, config, h) ==
    LET i == defender_index
        world_state_x_plus ==
            [world_state EXCEPT !.defenders[i].position.x = @ + h]
        world_state_x_minus ==
            [world_state EXCEPT !.defenders[i].position.x = @ - h]
        world_state_y_plus ==
            [world_state EXCEPT !.defenders[i].position.y = @ + h]
        world_state_y_minus ==
            [world_state EXCEPT !.defenders[i].position.y = @ - h]
        grad_x == Div(calculate_loss_engage(world_state_x_plus, i, config)
                        - calculate_loss_engage(world_state_x_minus, i, config),
                      Mul(2 * One, h))
        grad_y == Div(calculate_loss_engage(world_state_y_plus, i, config)
                        - calculate_loss_engage(world_state_y_minus, i, config),
                      Mul(2 * One, h))
    IN  Point(grad_x, grad_y)

\* clamp_velocity
clamp_velocity(velocity, max_speed) ==
    Bind(magnitude(velocity), LAMBDA current_speed :
    IF Lte(current_speed, max_speed) THEN velocity
    ELSE Bind(normalize(velocity), LAMBDA normalized :
         Point(Mul(normalized.x, max_speed), Mul(normalized.y, max_speed))))

\* calculate_engage_velocity (h = 1e-4)
calculate_engage_velocity(world_state, defender_index, config) ==
    Bind(One \div 10000, LAMBDA h :
    Bind(calculate_gradient(world_state, defender_index, config, h), LAMBDA gradient :
    Bind(Point(Mul(-config.learning_rate, gradient.x),
               Mul(-config.learning_rate, gradient.y)), LAMBDA velocity :
    clamp_velocity(velocity, config.defender_speed))))

\* calculate_intercept_velocity that falls back on the Travel heading when the
\* segment misses the circle
calculate_intercept_velocity_Fallback(defender_pos, apollonian_circle, intruder_pos, protected_center, max_speed) ==
    Bind(calculate_line_segment_circle_intersection(
             intruder_pos, protected_center, apollonian_circle), LAMBDA target :
    IF target # << >>
    THEN Bind(target[1], LAMBDA target_point :
         Bind(Point(target_point.x - defender_pos.x,
                    target_point.y - defender_pos.y), LAMBDA direction :
         Bind(normalize(direction), LAMBDA normalized :
         Point(Mul(normalized.x, max_speed), Mul(normalized.y, max_speed)))))
    ELSE calculate_travel_velocity(apollonian_circle.center,
                                   protected_center, max_speed))

\* calculate_intercept_velocity
calculate_intercept_velocity(defender_pos, apollonian_circle, intruder_pos, protected_center, max_speed) ==
    Bind(calculate_line_segment_circle_intersection(
             intruder_pos, protected_center, apollonian_circle), LAMBDA target :
    IF target # << >>
    THEN Bind(target[1], LAMBDA target_point :
         Bind(Point(target_point.x - defender_pos.x,
                    target_point.y - defender_pos.y), LAMBDA direction :
         Bind(normalize(direction), LAMBDA normalized :
         Point(Mul(normalized.x, max_speed), Mul(normalized.y, max_speed)))))
    ELSE Point(0, 0))

\* a resize of the state vector to the defender count: pads with Travel and
\* truncates
PadStates_Resize(defender_states, n) ==
    [i \in 1..n |-> IF i <= Len(defender_states) THEN defender_states[i]
                    ELSE "Travel"]

\* the while loop that pushes Travel until every defender has an entry
RECURSIVE PadStates(_, _)
PadStates(defender_states, n) ==
    IF Len(defender_states) < n
    THEN PadStates(Append(defender_states, "Travel"), n)
    ELSE defender_states

\* the match on the defender's new state that picks its velocity
StateVelocity(world_state, config, i, state, apollonian_circle) ==
    CASE state = "Travel" ->
             calculate_travel_velocity(apollonian_circle.center,
                                       world_state.protected_zone.center,
                                       config.defender_speed)
      [] state = "Engage" ->
             calculate_engage_velocity(world_state, i, config)
      [] state = "Intercept" ->
             calculate_intercept_velocity(world_state.defenders[i].position,
                                          apollonian_circle,
                                          world_state.intruder.position,
                                          world_state.protected_zone.center,
                                          config.defender_speed)

\* the for loop with every defender's transition taken from the state of
\* the first defender
RECURSIVE CommandLoop_FirstState(_, _, _, _, _)
CommandLoop_FirstState(world_state, config, i, defender_states, velocity_commands) ==
    IF i > Len(world_state.defenders)
    THEN [states |-> defender_states, velocities |-> velocity_commands]
    ELSE
    Bind(world_state.defenders[i], LAMBDA defender :
    Bind(calculate_apollonian_circle(defender.position,
                                     world_state.intruder.position,
                                     speed_ratio(config)), LAMBDA apollonian_circle :
    Bind(determine_next_control_state(defender_states[1],
                                      apollonian_circle,
                                      world_state.protected_zone,
                                      world_state.intruder.position,
                                      world_state.protected_zone.center), LAMBDA next :
    Bind([defender_states EXCEPT ![i] = next], LAMBDA updated :
    Bind(StateVelocity(world_state, config, i, updated[i],
                       apollonian_circle), LAMBDA velocity :
    CommandLoop_FirstState(world_state, config, i + 1, updated,
                Append(velocity_commands, velocity)))))))

\* the for loop over the defenders, from index i on, in index order
RECURSIVE CommandLoop(_, _, _, _, _)
CommandLoop(world_state, config, i, defender_states, velocity_commands) ==
    IF i > Len(world_state.defenders)
    THEN [states |-> defender_states, velocities |-> velocity_commands]
    ELSE
    Bind(world_state.defenders[i], LAMBDA defender :
    Bind(calculate_apollonian_circle(defender.position,
                                     world_state.intruder.position,
                                     speed_ratio(config)), LAMBDA apollonian_circle :
    Bind(determine_next_control_state(defender_states[i],
                                      apollonian_circle,
                                      world_state.protected_zone,
                                      world_state.intruder.position,
                                      world_state.protected_zone.center), LAMBDA next :
    Bind([defender_states EXCEPT ![i] = next], LAMBDA updated :
    Bind(StateVelocity(world_state, config, i, updated[i],
                       apollonian_circle), LAMBDA velocity :
    CommandLoop(world_state, config, i + 1, updated,
                Append(velocity_commands, velocity)))))))

\* get_defender_velocity_commands_with_states: the returned velocities and the
\* caller's state vector as the call leaves it
get_defender_velocity_commands_with_states(world_state, defender_states, config) ==
    CommandLoop(world_state, config, 1,
                PadStates(defender_states, Len(world_state.defenders)), << >>)

\* the legacy entry started from a vector of Intercept instead of Travel
get_defender_velocity_commands_Latched(world_state, config) ==
    LET states == [i \in 1..Len(world_state.defenders) |-> "Intercept"]
    IN  get_defender_velocity_commands_with_states(world_state, states,
                                                   config).velocities

\* get_defender_velocity_commands (legacy)
get_defender_velocity_commands(world_state, config) ==
    LET states == [i \in 1..Len(world_state.defenders) |-> "Travel"]
    IN  get_defender_velocity_commands_with_states(world_state, states,
                                                   config).velocities

(***************************************************************************)
(* The planning grid (GridConfig, GridNode and the grid <-> world maps are *)
(* described by the specification; their code is not in the sources)       *)
(***************************************************************************)

\* GridConfig::new(width, height, (min_x, max_x, min_y, max_y), base_cost,
\* threat_penalty)
GridConfig(w, h, bounds, base, penalty) ==
    [width |-> w, height |-> h,
     min_x |-> bounds[1], max_x |-> bounds[2],
     min_y |-> bounds[3], max_y |-> bounds[4],
     base_cost |-> base, threat_penalty |-> penalty]

\* GridNode::new
GridNode(r, c) == [row |-> r, col |-> c]

\* is_valid_grid_position
is_valid_grid_position(row, col, grid_config) ==
    row >= 0 /\ row < grid_config.height /\ col >= 0 /\ col < grid_config.width

\* f64::floor, as a cell index, of a non-negative value
Floor(a) == a \div One

\* f64::ceil, as a cell count, of a non-negative value
Ceil(a) == (a + One - 1) \div One

\* to_grid_coords: linear interpolation from the world bounds to (row, col);
\* << >> (none) outside the bounds, <<node>> inside
to_grid_coords(p, grid_config) ==
    IF \/ p.x < grid_config.min_x \/ p.x > grid_config.max_x
       \/ p.y < grid_config.min_y \/ p.y > grid_config.max_y
    THEN << >>
    ELSE
    LET col == Floor(Mul(Div(p.x - grid_config.min_x,
                             grid_config.max_x - grid_config.min_x),
                         grid_config.width * One))
        row == Floor(Mul(Div(p.y - grid_config.min_y,
                             grid_config.max_y - grid_config.min_y),
                         grid_config.height * One))
    IN  << GridNode(Min(row, grid_config.height - 1),
                    Min(col, grid_config.width - 1)) >>

\* to_world_coords: the centre of the cell
to_world_coords(node, grid_config) ==
    Point(grid_config.min_x
            + Mul(node.col * One + One \div 2,
                  Div(grid_config.max_x - grid_config.min_x,
                      grid_config.width * One)),
          grid_config.min_y
            + Mul(node.row * One + One \div 2,
                  Div(grid_config.max_y - grid_config.min_y,
                      grid_config.height * One)))

(***************************************************************************)
(* pathfinding.rs: the threat-map builder                                  *)
(***************************************************************************)

\* the uniform cell size both rasterisations use
cell_size(grid_config) ==
    Max(Div(grid_config.max_x - grid_config.min_x, grid_config.width * One),
        Div(grid_config.max_y - grid_config.min_y, grid_config.height * One))

\* mark_circle_threat that marks the whole bounding square
mark_circle_threat_Square(cost_map, circle, grid_config) ==
    Bind(to_grid_coords(circle.center, grid_config), LAMBDA center :
    IF center = << >> THEN cost_map
    ELSE
    Bind(center[1], LAMBDA center_grid :
    Bind(Ceil(Div(circle.radius, cell_size(grid_config))), LAMBDA grid_radius :
    Bind(Max(center_grid.row - grid_radius, 0), LAMBDA start_row :
    Bind(Min(center_grid.row + grid_radius + 1, grid_config.height), LAMBDA end_row :
    Bind(Max(center_grid.col - grid_radius, 0), LAMBDA start_col :
    Bind(Min(center_grid.col + grid_radius + 1, grid_config.width), LAMBDA end_col :
    [row \in DOMAIN cost_map |->
       [col \in DOMAIN cost_map[row] |->
          IF /\ row >= start_row /\ row < end_row
             /\ col >= start_col /\ col < end_col
          THEN cost_map[row][col] + grid_config.threat_penalty
          ELSE cost_map[row][col]]])))))))

\* mark_circle_threat: the cost map with threat_penalty added to every cell
\* of the bounding square whose centre the circle contains
mark_circle_threat(cost_map, circle, grid_config) ==
    Bind(to_grid_coords(circle.center, grid_config), LAMBDA center :
    IF center = << >> THEN cost_map
    ELSE
    Bind(center[1], LAMBDA center_grid :
    Bind(Ceil(Div(circle.radius, cell_size(grid_config))), LAMBDA grid_radius :
    Bind(Max(center_grid.row - grid_radius, 0), LAMBDA start_row :
    Bind(Min(center_grid.row + grid_radius + 1, grid_config.height), LAMBDA end_row :
    Bind(Max(center_grid.col - grid_radius, 0), LAMBDA start_col :
    Bind(Min(center_grid.col + grid_radius + 1, grid_config.width), LAMBDA end_col :
    [row \in DOMAIN cost_map |->
       [col \in DOMAIN cost_map[row] |->
          IF /\ row >= start_row /\ row < end_row
             /\ col >= start_col /\ col < end_col
             /\ contains_point(circle,
                               to_world_coords(GridNode(row, col),
                                               grid_config))
          THEN cost_map[row][col] + grid_config.threat_penalty
          ELSE cost_map[row][col]]])))))))

\* the for loop of generate_threat_map over the defenders from index j on
RECURSIVE ThreatLoop(_, _, _, _, _)
ThreatLoop(world_state, grid_config, sim_config, cost_map, j) ==
    IF j > Len(world_state.defenders) THEN cost_map
    ELSE
    Bind(calculate_apollonian_circle(world_state.defenders[j].position,
                                     world_state.intruder.position,
                                     speed_ratio(sim_config)), LAMBDA apollonian_circle :
    IF apollonian_circle.radius = INFINITY
    THEN ThreatLoop(world_state, grid_config, sim_config, cost_map, j + 1)
    ELSE ThreatLoop(world_state, grid_config, sim_config,
                    mark_circle_threat(cost_map, apollonian_circle,
                                       grid_config),
                    j + 1))

\* generate_threat_map: cost_map[row][col], rows 0..height-1, cols 0..width-1
generate_threat_map(world_state, grid_config, sim_config) ==
    ThreatLoop(world_state, grid_config, sim_config,
               [row \in 0..(grid_config.height - 1) |->
                  [col \in 0..(grid_config.width - 1) |-> grid_config.base_cost]],
               1)

(***************************************************************************)
(* pathfinding.rs: A* on the 4-connected grid                              *)
(***************************************************************************)

\* PathResult::new(path, cost, found)
PathResult(p, c, f) == [path |-> p, cost |-> c, found |-> f]

\* AStarNode; parent is << >> (None) or <<node>>
AStarNode(pos, g, h, par) ==
    [position |-> pos, g_cost |-> g, h_cost |-> h, f_cost |-> g + h,
     parent |-> par]

\* a <= b under Ord for AStarNode: cmp compares the f costs in reverse, so the
\* node with the smaller f cost is the greater element of the max-heap
AStarNode_le(a, b) == ~(b.f_cost > a.f_cost)

\* manhattan_distance counted four times over
manhattan_distance_Weighted(a, b) ==
    4 * (Abs(a.row - b.row) + Abs(a.col - b.col)) * One

\* manhattan_distance
manhattan_distance(a, b) == (Abs(a.row - b.row) + Abs(a.col - b.col)) * One

\* get_neighbors with the four diagonal steps added
get_neighbors_Diagonal(node, grid_config) ==
    SelectSeq(<< [row |-> node.row,     col |-> node.col + 1],
                 [row |-> node.row,     col |-> node.col - 1],
                 [row |-> node.row + 1, col |-> node.col],
                 [row |-> node.row - 1, col |-> node.col],
                 [row |-> node.row + 1, col |-> node.col + 1],
                 [row |-> node.row + 1, col |-> node.col - 1],
                 [row |-> node.row - 1, col |-> node.col + 1],
                 [row |-> node.row - 1, col |-> node.col - 1] >>,
              LAMBDA n : /\ n.row >= 0 /\ n.col >= 0
                         /\ is_valid_grid_position(n.row, n.col, grid_config))

\* get_neighbors without the step up
get_neighbors_NoUp(node, grid_config) ==
    SelectSeq(<< [row |-> node.row,     col |-> node.col + 1],
                 [row |-> node.row,     col |-> node.col - 1],
                 [row |-> node.row + 1, col |-> node.col] >>,
              LAMBDA n : /\ n.row >= 0 /\ n.col >= 0
                         /\ is_valid_grid_position(n.row, n.col, grid_config))

\* get_neighbors: right, left, down, up, kept when inside the grid
get_neighbors(node, grid_config) ==
    SelectSeq(<< [row |-> node.row,     col |-> node.col + 1],
                 [row |-> node.row,     col |-> node.col - 1],
                 [row |-> node.row + 1, col |-> node.col],
                 [row |-> node.row - 1, col |-> node.col] >>,
              LAMBDA n : /\ n.row >= 0 /\ n.col >= 0
                         /\ is_valid_grid_position(n.row, n.col, grid_config))

\* BinaryHeap::sift_up on the array data (positions from 1): the element
\* climbs while it is greater than its parent
RECURSIVE sift_up(_, _, _, _)
sift_up(data, start, pos, element) ==
    IF pos > start /\ ~AStarNode_le(element, data[pos \div 2])
    THEN sift_up([data EXCEPT ![pos] = data[pos \div 2]], start, pos \div 2,
                 element)
    ELSE [data EXCEPT ![pos] = element]

\* BinaryHeap::sift_down_to_bottom: the hole goes down to a leaf along the
\* greater children (the right one on a tie), then the element climbs back
RECURSIVE sift_down_to_bottom(_, _, _, _)
sift_down_to_bottom(data, start, pos, element) ==
    IF 2 * pos + 1 <= Len(data)
    THEN Bind(IF AStarNode_le(data[2 * pos], data[2 * pos + 1])
              THEN 2 * pos + 1 ELSE 2 * pos, LAMBDA child :
         sift_down_to_bottom([data EXCEPT ![pos] = data[child]], start, child,
                             element))
    ELSE IF 2 * pos = Len(data)
    THEN sift_up([data EXCEPT ![pos] = data[2 * pos]], start, 2 * pos, element)
    ELSE sift_up(data, start, pos, element)

\* BinaryHeap::push
heap_push(data, item) == sift_up(Append(data, item), 1, Len(data) + 1, item)

\* BinaryHeap::pop on a non-empty heap: the greatest element and the heap left
heap_pop(data) ==
    IF Len(data) = 1 THEN [item |-> data[1], data |-> << >>]
    ELSE [item |-> data[1],
          data |-> sift_down_to_bottom(SubSeq(data, 1, Len(data) - 1), 1, 1,
                                       data[Len(data)])]

\* reconstruct_path without the reversal: the goal first, the start last
RECURSIVE reconstruct_path_Unreversed(_, _)
reconstruct_path_Unreversed(goal, came_from) ==
    IF goal \in DOMAIN came_from
    THEN << goal >> \o reconstruct_path_Unreversed(came_from[goal], came_from)
    ELSE << goal >>

\* reconstruct_path: from the goal back along came_from, reversed
RECURSIVE reconstruct_path(_, _)
reconstruct_path(goal, came_from) ==
    IF goal \in DOMAIN came_from
    THEN Append(reconstruct_path(came_from[goal], came_from), goal)
    ELSE << goal >>

\* the body of the for loop over the neighbours of the popped node, from the
\* k-th neighbour on; st holds open_set, closed_set, came_from and g_scores
RECURSIVE NeighborLoop(_, _, _, _, _, _)
NeighborLoop(current, neighbors, k, goal, cost_map, st) ==
    IF k > Len(neighbors) THEN st
    ELSE
    Bind(neighbors[k], LAMBDA neighbor :
    Bind(cost_map[neighbor.row][neighbor.col], LAMBDA neighbor_cost :
    IF neighbor \in st.closed_set \/ neighbor_cost = INFINITY
    THEN NeighborLoop(current, neighbors, k + 1, goal, cost_map, st)
    ELSE
    Bind(current.g_cost + neighbor_cost, LAMBDA tentative_g_score :
    IF neighbor \in DOMAIN st.g_scores
       /\ ~(tentative_g_score < st.g_scores[neighbor])
    THEN NeighborLoop(current, neighbors, k + 1, goal, cost_map, st)
    ELSE NeighborLoop(current, neighbors, k + 1, goal, cost_map,
             [st EXCEPT
                !.open_set = heap_push(st.open_set,
                                 AStarNode(neighbor, tentative_g_score,
                                           manhattan_distance(neighbor, goal),
                                           << current.position >>)),
                !.came_from = (neighbor :> current.position) @@ st.came_from,
                !.g_scores = (neighbor :> tentative_g_score) @@ st.g_scores]))))

\* SearchRound that goes on polling an empty open set
SearchRound_PollsEmpty(goal, cost_map, grid_config, st) ==
    IF st.result # << >> THEN st
    ELSE IF st.open_set = << >> THEN st
    ELSE
    Bind(heap_pop(st.open_set), LAMBDA popped :
    Bind(popped.item, LAMBDA current :
    IF current.position = goal
    THEN [st EXCEPT !.result =
              << PathResult(reconstruct_path(goal, st.came_from),
                            current.g_cost, TRUE) >>]
    ELSE NeighborLoop(current, get_neighbors(current.position, grid_config),
                      1, goal, cost_map,
                      [st EXCEPT !.open_set = popped.data,
                                 !.closed_set = @ \cup {current.position}])))

\* SearchRound that hands back the goal node when the open set runs empty
SearchRound_KeepsGoal(goal, cost_map, grid_config, st) ==
    IF st.result # << >> THEN st
    ELSE IF st.open_set = << >>
    THEN [st EXCEPT !.result = << PathResult(<< goal >>, 0, FALSE) >>]
    ELSE
    Bind(heap_pop(st.open_set), LAMBDA popped :
    Bind(popped.item, LAMBDA current :
    IF current.position = goal
    THEN [st EXCEPT !.result =
              << PathResult(reconstruct_path(goal, st.came_from),
                            current.g_cost, TRUE) >>]
    ELSE NeighborLoop(current, get_neighbors(current.position, grid_config),
                      1, goal, cost_map,
                      [st EXCEPT !.open_set = popped.data,
                                 !.closed_set = @ \cup {current.position}])))

\* one round of the while loop of astar_pathfind: a pop, the goal test and
\* the neighbours of the popped node; result is << >> while the loop runs and
\* <<PathResult>> once it has returned
SearchRound(goal, cost_map, grid_config, st) ==
    IF st.result # << >> THEN st
    ELSE IF st.open_set = << >>
    THEN [st EXCEPT !.result = << PathResult(<< >>, 0, FALSE) >>]
    ELSE
    Bind(heap_pop(st.open_set), LAMBDA popped :
    Bind(popped.item, LAMBDA current :
    IF current.position = goal
    THEN [st EXCEPT !.result =
              << PathResult(reconstruct_path(goal, st.came_from),
                            current.g_cost, TRUE) >>]
    ELSE NeighborLoop(current, get_neighbors(current.position, grid_config),
                      1, goal, cost_map,
                      [st EXCEPT !.open_set = popped.data,
                                 !.closed_set = @ \cup {current.position}])))

\* up to n rounds of the while loop, the first half of them before the rest
RECURSIVE SearchLoop(_, _, _, _, _)
SearchLoop(goal, cost_map, grid_config, st, n) ==
    IF st.result # << >> THEN st
    ELSE IF n = 1 THEN SearchRound(goal, cost_map, grid_config, st)
    ELSE SearchLoop(goal, cost_map, grid_config,
                    SearchLoop(goal, cost_map, grid_config, st, n \div 2),
                    n - n \div 2)

\* no search runs longer: a round pops one node, and a node is pushed only
\* at the start and when a neighbour's g score is set or lowered
MaxRounds(grid_config) == 8 * grid_config.width * grid_config.height + 1

\* astar_pathfind that charges the start cell as well
astar_pathfind_ChargesStart(start, goal, cost_map, grid_config) ==
    IF \/ ~is_valid_grid_position(start.row, start.col, grid_config)
       \/ ~is_valid_grid_position(goal.row, goal.col, grid_config)
    THEN PathResult(<< >>, 0, FALSE)
    ELSE IF start = goal THEN PathResult(<< start >>, 0, TRUE)
    ELSE SearchLoop(goal, cost_map, grid_config,
                    [open_set |-> << AStarNode(start,
                                               cost_map[start.row][start.col],
                                               manhattan_distance(start, goal),
                                               << >>) >>,
                     closed_set |-> {},
                     came_from |-> << >>,
                     g_scores |-> (start :> cost_map[start.row][start.col]),
                     result |-> << >>],
                    MaxRounds(grid_config)).result[1]

\* astar_pathfind
astar_pathfind(start, goal, cost_map, grid_config) ==
    IF \/ ~is_valid_grid_position(start.row, start.col, grid_config)
       \/ ~is_valid_grid_position(goal.row, goal.col, grid_config)
    THEN PathResult(<< >>, 0, FALSE)
    ELSE IF start = goal THEN PathResult(<< start >>, 0, TRUE)
    ELSE SearchLoop(goal, cost_map, grid_config,
                    [open_set |-> << AStarNode(start, 0,
                                               manhattan_distance(start, goal),
                                               << >>) >>,
                     closed_set |-> {},
                     came_from |-> << >>,
                     g_scores |-> (start :> 0),
                     result |-> << >>],
                    MaxRounds(grid_config)).result[1]

(***************************************************************************)
(* pathfinding.rs: the intruder planner                                    *)
(***************************************************************************)

\* the nodes of the nested for loops over start_row..end_row and
\* start_col..end_col, in iteration order
RangeNodes(start_row, end_row, start_col, end_col) ==
    IF end_row <= start_row \/ end_col <= start_col THEN << >>
    ELSE [k \in 1..((end_row - start_row) * (end_col - start_col)) |->
            GridNode(start_row + (k - 1) \div (end_col - start_col),
                     start_col + ((k - 1) % (end_col - start_col)))]

\* one candidate put into a list sorted by cost, behind the candidates whose
\* cost is not greater
RECURSIVE InsertByCost(_, _)
InsertByCost(sorted, c) ==
    IF sorted = << >> THEN << c >>
    ELSE IF c.cost < sorted[Len(sorted)].cost
    THEN Append(InsertByCost(SubSeq(sorted, 1, Len(sorted) - 1), c),
                sorted[Len(sorted)])
    ELSE Append(sorted, c)

\* sort_by on the candidate costs: a stable sort
RECURSIVE sort_by_cost(_)
sort_by_cost(v) ==
    IF v = << >> THEN << >>
    ELSE InsertByCost(sort_by_cost(SubSeq(v, 1, Len(v) - 1)), v[Len(v)])

\* find_best_goal_target without the return for an intruder inside the zone
find_best_goal_target_NoShortcut(world_state, grid_config, cost_map) ==
    Bind(world_state.protected_zone, LAMBDA protected_zone :
    Bind(to_grid_coords(protected_zone.center, grid_config), LAMBDA zone_center :
    IF zone_center = << >> THEN << >>
    ELSE
    Bind(zone_center[1], LAMBDA zone_center_grid :
    Bind(Ceil(Div(protected_zone.radius, cell_size(grid_config))) + 1,
         LAMBDA grid_radius :
    Bind(Max(zone_center_grid.row - grid_radius, 0), LAMBDA start_row :
    Bind(Min(zone_center_grid.row + grid_radius + 1, grid_config.height),
         LAMBDA end_row :
    Bind(Max(zone_center_grid.col - grid_radius, 0), LAMBDA start_col :
    Bind(Min(zone_center_grid.col + grid_radius + 1, grid_config.width),
         LAMBDA end_col :
    Bind(SelectSeq(RangeNodes(start_row, end_row, start_col, end_col),
                   LAMBDA node :
                       contains_point(protected_zone,
                                      to_world_coords(node, grid_config))),
         LAMBDA inside :
    Bind([k \in 1..Len(inside) |->
            [node |-> inside[k],
             cost |-> cost_map[inside[k].row][inside[k].col]]],
         LAMBDA goal_candidates :
    IF goal_candidates = << >>
    THEN to_grid_coords(protected_zone.center, grid_config)
    ELSE << sort_by_cost(goal_candidates)[1].node >>))))))))))

\* find_best_goal_target that falls back to the first cell when the zone
\* centre is off the grid
find_best_goal_target_OffGridFallback(world_state, grid_config, cost_map) ==
    Bind(world_state.protected_zone, LAMBDA protected_zone :
    IF contains_point(protected_zone, world_state.intruder.position)
    THEN to_grid_coords(world_state.intruder.position, grid_config)
    ELSE
    Bind(to_grid_coords(protected_zone.center, grid_config), LAMBDA zone_center :
    IF zone_center = << >> THEN << GridNode(0, 0) >>
    ELSE
    Bind(zone_center[1], LAMBDA zone_center_grid :
    Bind(Ceil(Div(protected_zone.radius, cell_size(grid_config))) + 1,
         LAMBDA grid_radius :
    Bind(Max(zone_center_grid.row - grid_radius, 0), LAMBDA start_row :
    Bind(Min(zone_center_grid.row + grid_radius + 1, grid_config.height),
         LAMBDA end_row :
    Bind(Max(zone_center_grid.col - grid_radius, 0), LAMBDA start_col :
    Bind(Min(zone_center_grid.col + grid_radius + 1, grid_config.width),
         LAMBDA end_col :
    Bind(SelectSeq(RangeNodes(start_row, end_row, start_col, end_col),
                   LAMBDA node :
                       contains_point(protected_zone,
                                      to_world_coords(node, grid_config))),
         LAMBDA inside :
    Bind([k \in 1..Len(inside) |->
            [node |-> inside[k],
             cost |-> cost_map[inside[k].row][inside[k].col]]],
         LAMBDA goal_candidates :
    IF goal_candidates = << >>
    THEN to_grid_coords(protected_zone.center, grid_config)
    ELSE << sort_by_cost(goal_candidates)[1].node >>))))))))))

\* find_best_goal_target: << >> is None, <<node>> is Some(node)
find_best_goal_target(world_state, grid_config, cost_map) ==
    Bind(world_state.protected_zone, LAMBDA protected_zone :
    IF contains_point(protected_zone, world_state.intruder.position)
    THEN to_grid_coords(world_state.intruder.position, grid_config)
    ELSE
    Bind(to_grid_coords(protected_zone.center, grid_config), LAMBDA zone_center :
    IF zone_center = << >> THEN << >>
    ELSE
    Bind(zone_center[1], LAMBDA zone_center_grid :
    Bind(Ceil(Div(protected_zone.radius, cell_size(grid_config))) + 1,
         LAMBDA grid_radius :
    Bind(Max(zone_center_grid.row - grid_radius, 0), LAMBDA start_row :
    Bind(Min(zone_center_grid.row + grid_radius + 1, grid_config.height),
         LAMBDA end_row :
    Bind(Max(zone_center_grid.col - grid_radius, 0), LAMBDA start_col :
    Bind(Min(zone_center_grid.col + grid_radius + 1, grid_config.width),
         LAMBDA end_col :
    Bind(SelectSeq(RangeNodes(start_row, end_row, start_col, end_col),
                   LAMBDA node :
                       contains_point(protected_zone,
                                      to_world_coords(node, grid_config))),
         LAMBDA inside :
    Bind([k \in 1..Len(inside) |->
            [node |-> inside[k],
             cost |-> cost_map[inside[k].row][inside[k].col]]],
         LAMBDA goal_candidates :
    IF goal_candidates = << >>
    THEN to_grid_coords(protected_zone.center, grid_config)
    ELSE << sort_by_cost(goal_candidates)[1].node >>))))))))))

\* calculate_intruder_full_path
calculate_intruder_full_path(world_state, grid_config, sim_config) ==
    Bind(generate_threat_map(world_state, grid_config, sim_config),
         LAMBDA cost_map :
    Bind(to_grid_coords(world_state.intruder.position, grid_config),
         LAMBDA start_grid :
    IF start_grid = << >> THEN PathResult(<< >>, 0, FALSE)
    ELSE
    Bind(find_best_goal_target(world_state, grid_config, cost_map),
         LAMBDA goal_target :
    IF goal_target = << >> THEN PathResult(<< >>, 0, FALSE)
    ELSE astar_pathfind(start_grid[1], goal_target[1], cost_map, grid_config))))

\* calculate_intruder_next_position that returns the path's first node
calculate_intruder_next_position_First(world_state, grid_config, sim_config) ==
    Bind(generate_threat_map(world_state, grid_config, sim_config),
         LAMBDA cost_map :
    Bind(to_grid_coords(world_state.intruder.position, grid_config),
         LAMBDA start_grid :
    IF start_grid = << >> THEN << >>
    ELSE
    Bind(find_best_goal_target(world_state, grid_config, cost_map),
         LAMBDA goal_target :
    IF goal_target = << >> THEN << >>
    ELSE
    Bind(astar_pathfind(start_grid[1], goal_target[1], cost_map, grid_config),
         LAMBDA path_result :
    IF ~path_result.found \/ Len(path_result.path) < 2 THEN << >>
    ELSE << to_world_coords(path_result.path[1], grid_config) >>))))

\* calculate_intruder_next_position: << >> is None, <<point>> is Some(point)
calculate_intruder_next_position(world_state, grid_config, sim_config) ==
    Bind(generate_threat_map(world_state, grid_config, sim_config),
         LAMBDA cost_map :
    Bind(to_grid_coords(world_state.intruder.position, grid_config),
         LAMBDA start_grid :
    IF start_grid = << >> THEN << >>
    ELSE
    Bind(find_best_goal_target(world_state, grid_config, cost_map),
         LAMBDA goal_target :
    IF goal_target = << >> THEN << >>
    ELSE
    Bind(astar_pathfind(start_grid[1], goal_target[1], cost_map, grid_config),
         LAMBDA path_result :
    IF ~path_result.found \/ Len(path_result.path) < 2 THEN << >>
    ELSE << to_world_coords(path_result.path[2], grid_config) >>))))

(***************************************************************************)
(* The driver: world snapshots and configurations handed to the core       *)
(***************************************************************************)

\* the most defenders a world snapshot holds
MaxDefenders == 2

\* a point given in whole units
P(ux, uy) == Point(ux * One, uy * One)

\* the positions a defender may take, in a fixed order
DefPos == << P(-3, 0), P(4, 5), P(-6, 0) >>

\* the positions the intruder may take
IntPos == { P(10, 0), P(6, 0), P(4, 5) }

\* the protected zone of the scenarios: Circle((0,0), 2)
Zones == { Circle(P(0, 0), 2 * One) }

\* the index sequences i1 < i2 < ... < in over 1..m
Increasing(m, n) ==
    { s \in [1..n -> 1..m] : \A a \in 1..(n - 1) : s[a] < s[a + 1] }

\* the defender line-ups: 1..MaxDefenders defenders at distinct positions
Lineups ==
    { [a \in 1..Len(s) |-> AgentState(DefPos[s[a]], Point(0, 0))] :
        s \in UNION { Increasing(Len(DefPos), n) : n \in 1..MaxDefenders } }

\* the world snapshots; a defender may stand on the intruder
Worlds ==
    { WorldState(ds, AgentState(ip, Point(-One, 0)), z) :
        ds \in Lineups, ip \in IntPos, z \in Zones }

\* the configurations: the defender half as fast as the intruder, with a
\* small and with a large learning rate, and equal speeds (the degenerate
\* Apollonian case)
Configs ==
    { SimConfig(One \div 10, 2 * One, 4 * One, One, One \div 10),
      SimConfig(10 * One, 2 * One, 4 * One, One, One \div 10),
      SimConfig(One \div 10, 2 * One, 2 * One, One, One \div 10) }

\* the planning grid: 6 x 4 cells of 4 x 4 units, base cost 1, penalty 1000
Grid ==
    GridConfig(6, 4, << -12 * One, 12 * One, -8 * One, 8 * One >>,
               One, 1000 * One)

(***************************************************************************)
(* The state machine                                                       *)
(***************************************************************************)

VARIABLES
    world,              \* the snapshot the driver holds
    config,             \* its SimConfig
    defender_states,    \* the caller's FSM state vector
    entry_states,       \* defender_states as the last call found it
    velocity_commands,  \* the velocities the last call returned
    cost_map,           \* the threat map the last call returned
    last_call,          \* which entry point ran last
    grid_config,        \* the GridConfig the driver plans on
    query,              \* the arguments the driver holds for a direct call
    path_result,        \* the PathResult the last call returned
    next_position,      \* the optional point the last call returned
    returned,           \* the value the last direct kernel call returned
    search,             \* the locals of the astar_pathfind call in progress
    expanded,           \* the nodes whose neighbours that call has examined
    inserted            \* the entries that call has pushed, in push order

vars == << world, config, defender_states, entry_states, velocity_commands,
           cost_map, last_call, grid_config, query, path_result,
           next_position, returned, search, expanded, inserted >>

\* the record of a search that runs round by round
loop_vars == << search, expanded, inserted >>

\* what the controller and the threat-map calls leave alone
planner_vars ==
    << query, path_result, next_position, returned, loop_vars >>

Init ==
    /\ world \in Worlds
    /\ config \in Configs
    /\ defender_states = << >>
    /\ entry_states = << >>
    /\ velocity_commands = << >>
    /\ cost_map = << >>
    /\ last_call = "none"
    /\ grid_config = Grid
    /\ query = << >>
    /\ path_result = << >>
    /\ next_position = << >>
    /\ returned = << >>
    /\ search = << >>
    /\ expanded = << >>
    /\ inserted = << >>

\* the driver replaces the snapshot, the configuration or both between two
\* calls; the state vector is the caller's and stays
Perturb ==
    /\ \E w \in Worlds, c \in Configs :
          /\ << w, c >> # << world, config >>
          /\ world' = w
          /\ config' = c
    /\ entry_states' = << >>
    /\ velocity_commands' = << >>
    /\ cost_map' = << >>
    /\ last_call' = "none"
    /\ UNCHANGED << defender_states, grid_config, planner_vars >>

\* one call of get_defender_velocity_commands_with_states
Tick ==
    \E r \in { get_defender_velocity_commands_with_states(
                   world, defender_states, config) } :
        /\ defender_states' = r.states
        /\ velocity_commands' = r.velocities
        /\ entry_states' = defender_states
        /\ cost_map' = << >>
        /\ last_call' = "with_states"
        /\ UNCHANGED << world, config, grid_config, planner_vars >>

\* one call of get_defender_velocity_commands
LegacyTick ==
    /\ velocity_commands' = get_defender_velocity_commands(world, config)
    /\ entry_states' = defender_states
    /\ cost_map' = << >>
    /\ last_call' = "legacy"
    /\ UNCHANGED << world, config, defender_states, grid_config, planner_vars >>

\* one call of generate_threat_map
ThreatMap ==
    /\ cost_map' = generate_threat_map(world, grid_config, config)
    /\ entry_states' = defender_states
    /\ velocity_commands' = << >>
    /\ last_call' = "threat_map"
    /\ UNCHANGED << world, config, defender_states, grid_config, planner_vars >>

Next == Perturb \/ Tick \/ LegacyTick \/ ThreatMap

Spec == Init /\ [][Next]_vars

(***************************************************************************)
(* The planning driver: the intruder is moved along the planned path       *)
(***************************************************************************)

\* the defender positions of the planning scenarios, in a fixed order
PlanDefPos == << P(0, -2), P(8, -7), P(-1, -1) >>

\* the planning line-ups: 1..MaxDefenders defenders at distinct positions
PlanLineups ==
    { [a \in 1..Len(s) |-> AgentState(PlanDefPos[s[a]], Point(0, 0))] :
        s \in UNION { Increasing(Len(PlanDefPos), n) : n \in 1..MaxDefenders } }

\* where the intruder starts: in the grid and outside the zones, on the
\* boundary of the right-hand zone, at the centre of the left-hand zone, in
\* the right-hand zone but off the grid, and off the grid and outside both
PlanIntPos == { P(5, -5), P(7, 0), P(-3, 1), P(9, 0), P(10, 4) }

\* the protected zones: one inside the grids, one centred off the grids
PlanZones == { Circle(P(-3, 1), 3 * One), Circle(P(10, 0), 3 * One) }

\* the planning snapshots
PlanWorlds ==
    { WorldState(ds, AgentState(ip, Point(0, 0)), z) :
        ds \in PlanLineups, ip \in PlanIntPos, z \in PlanZones }

\* the defender half as fast as the intruder
SlowDefender == SimConfig(One \div 10, 2 * One, 4 * One, One, One \div 10)

\* equal speeds
EqualSpeeds == SimConfig(One \div 10, 2 * One, 2 * One, One, One \div 10)

\* the planning grids over [-8, 8] x [-8, 8]: 8 x 8 square cells, and 4 x 16
\* cells that are four times as wide as they are high
SquareGrid ==
    GridConfig(8, 8, << -8 * One, 8 * One, -8 * One, 8 * One >>,
               One, 1000 * One)

FlatGrid ==
    GridConfig(4, 16, << -8 * One, 8 * One, -8 * One, 8 * One >>,
               One, 1000 * One)

PlanInit ==
    /\ world \in PlanWorlds
    /\ config \in { SlowDefender, EqualSpeeds }
    /\ grid_config \in { SquareGrid, FlatGrid }
    /\ defender_states = << >>
    /\ entry_states = << >>
    /\ velocity_commands = << >>
    /\ cost_map = << >>
    /\ last_call = "none"
    /\ query = << >>
    /\ path_result = << >>
    /\ next_position = << >>
    /\ returned = << >>
    /\ search = << >>
    /\ expanded = << >>
    /\ inserted = << >>

\* one call of calculate_intruder_full_path
FullPath ==
    /\ path_result' = calculate_intruder_full_path(world, grid_config, config)
    /\ next_position' = << >>
    /\ cost_map' = << >>
    /\ last_call' = "full_path"
    /\ UNCHANGED << world, config, grid_config, query, defender_states,
                    entry_states, velocity_commands, returned,
                    loop_vars >>

\* one call of calculate_intruder_next_position
NextPosition ==
    /\ next_position' =
           calculate_intruder_next_position(world, grid_config, config)
    /\ path_result' = << >>
    /\ cost_map' = << >>
    /\ last_call' = "next_position"
    /\ UNCHANGED << world, config, grid_config, query, defender_states,
                    entry_states, velocity_commands, returned,
                    loop_vars >>

\* the driver moves the intruder to the waypoint it was given
Advance ==
    /\ last_call = "next_position"
    /\ next_position # << >>
    /\ world' = [world EXCEPT !.intruder.position = next_position[1]]
    /\ next_position' = << >>
    /\ last_call' = "none"
    /\ UNCHANGED << config, grid_config, query, path_result, cost_map,
                    defender_states, entry_states, velocity_commands,
                    returned, loop_vars >>

PlanNext == ThreatMap \/ FullPath \/ NextPosition \/ Advance

PlanSpec == PlanInit /\ [][PlanNext]_vars

(***************************************************************************)
(* Direct searches: astar_pathfind on cost maps the caller supplies        *)
(***************************************************************************)

\* the 3 x 3 and 5 x 5 grids of the search tests
SmallGrid ==
    GridConfig(3, 3, << -(3 * One) \div 2, (3 * One) \div 2,
                        -(3 * One) \div 2, (3 * One) \div 2 >>,
               One, 1000 * One)

WideGrid ==
    GridConfig(5, 5, << -(5 * One) \div 2, (5 * One) \div 2,
                        -(5 * One) \div 2, (5 * One) \div 2 >>,
               One, 1000 * One)

\* the rows the 3 x 3 cost maps are made of: open, walled, dear, cheap
\* (costs below 1) and blocked
CostRows ==
    { << One, One, One >>,
      << One, INFINITY, One >>,
      << 3 * One, One, 3 * One >>,
      << INFINITY, INFINITY, One >>,
      << One \div 4, One \div 4, 3 * One >>,
      << One, INFINITY, INFINITY >>,
      << INFINITY, INFINITY, INFINITY >> }

\* the 3 x 3 cost maps: any three rows
SmallMaps ==
    { [r \in 0..2 |-> [c \in 0..2 |-> rows[r + 1][c + 1]]] :
        rows \in [1..3 -> CostRows] }

\* the 5 x 5 cost maps: one cost everywhere
WideMaps ==
    { [r \in 0..4 |-> [c \in 0..4 |-> cost]] :
        cost \in { One \div 4, One, 2 * One } }

\* the k-th node in row-major order; the node after the last cell is off the
\* grid
NodeAt(k, grid) == GridNode(k \div grid.width, k % grid.width)

\* the nodes a search is asked about: every cell and one node off the grid
QueryNodes(grid) == { NodeAt(k, grid) : k \in 0..(grid.width * grid.height) }

\* the searches the caller asks for
Queries(grid) ==
    IF grid = SmallGrid
    THEN { [start |-> s, goal |-> g, cost_map |-> m] :
             s \in { GridNode(1, 0), GridNode(0, 0), GridNode(3, 0) },
             g \in QueryNodes(grid), m \in SmallMaps }
    ELSE { [start |-> s, goal |-> g, cost_map |-> m] :
             s \in { GridNode(0, 0), GridNode(2, 2) },
             g \in QueryNodes(grid), m \in WideMaps }

\* a snapshot without defenders, for the calls that read none
QuietWorld ==
    WorldState(<< >>, AgentState(P(0, 0), Point(0, 0)), Circle(P(0, 0), One))

AstarInit ==
    /\ world = QuietWorld
    /\ config = SlowDefender
    /\ grid_config \in { SmallGrid, WideGrid }
    /\ query \in Queries(grid_config)
    /\ defender_states = << >>
    /\ entry_states = << >>
    /\ velocity_commands = << >>
    /\ cost_map = << >>
    /\ last_call = "none"
    /\ path_result = << >>
    /\ next_position = << >>
    /\ returned = << >>
    /\ search = << >>
    /\ expanded = << >>
    /\ inserted = << >>

\* one call of astar_pathfind
Pathfind ==
    /\ query # << >>
    /\ path_result' = astar_pathfind(query.start, query.goal, query.cost_map,
                                     grid_config)
    /\ last_call' = "astar"
    /\ UNCHANGED << world, config, grid_config, query, next_position, cost_map,
                    defender_states, entry_states, velocity_commands,
                    returned, loop_vars >>

\* the caller turns to the next goal, in row-major order and around
Requery ==
    /\ query # << >>
    /\ last_call = "astar"
    /\ query' = [query EXCEPT !.goal =
                     NodeAt((@.row * grid_config.width + @.col + 1)
                               % (grid_config.width * grid_config.height + 1),
                            grid_config)]
    /\ path_result' = << >>
    /\ last_call' = "none"
    /\ UNCHANGED << world, config, grid_config, next_position, cost_map,
                    defender_states, entry_states, velocity_commands,
                    returned, loop_vars >>

AstarNext == Pathfind \/ Requery

AstarSpec == AstarInit /\ [][AstarNext]_vars

\* every caller of the path planner: the planning driver and the direct
\* searches
SearchInit == PlanInit \/ AstarInit

SearchNext == PlanNext \/ AstarNext

SearchSpec == SearchInit /\ [][SearchNext]_vars

(***************************************************************************)
(* astar_pathfind round by round: the locals of the call are state and one *)
(* step is one round of its while loop                                     *)
(***************************************************************************)

\* the locals of astar_pathfind when it reaches the while loop
SearchStart(start, goal) ==
    [open_set |-> << AStarNode(start, 0, manhattan_distance(start, goal),
                               << >>) >>,
     closed_set |-> {},
     came_from |-> << >>,
     g_scores |-> (start :> 0),
     result |-> << >>]

\* the elements of a sequence
Range(v) == { v[k] : k \in DOMAIN v }

\* the entries a round pushed, in the order of the neighbours they are for:
\* the entries of the open set after the round that were not left by the pop
PushedBy(current, left, after) ==
    SelectSeq(
        [k \in DOMAIN get_neighbors(current.position, grid_config) |->
            Bind(get_neighbors(current.position, grid_config)[k], LAMBDA n :
            IF query.cost_map[n.row][n.col] = INFINITY THEN << >>
            ELSE AStarNode(n, current.g_cost + query.cost_map[n.row][n.col],
                           manhattan_distance(n, query.goal),
                           << current.position >>))],
        LAMBDA e : e \in Range(after) /\ e \notin Range(left))

\* the searches run round by round: the direct searches on the 3 x 3 grid
LoopInit ==
    /\ AstarInit
    /\ grid_config = SmallGrid

\* astar_pathfind returns before its loop: a node off the grid, or start = goal
EarlyReturn ==
    /\ last_call = "none"
    /\ \/ ~is_valid_grid_position(query.start.row, query.start.col, grid_config)
       \/ ~is_valid_grid_position(query.goal.row, query.goal.col, grid_config)
       \/ query.start = query.goal
    /\ path_result' = astar_pathfind(query.start, query.goal, query.cost_map,
                                     grid_config)
    /\ last_call' = "astar"
    /\ search' = << >>
    /\ expanded' = << >>
    /\ inserted' = << >>
    /\ UNCHANGED << world, config, grid_config, query, next_position, cost_map,
                    defender_states, entry_states, velocity_commands,
                    returned >>

\* astar_pathfind reaches its loop with the start node pushed
Begin ==
    /\ last_call = "none"
    /\ is_valid_grid_position(query.start.row, query.start.col, grid_config)
    /\ is_valid_grid_position(query.goal.row, query.goal.col, grid_config)
    /\ query.start # query.goal
    /\ search' = SearchStart(query.start, query.goal)
    /\ expanded' = << >>
    /\ inserted' = SearchStart(query.start, query.goal).open_set
    /\ last_call' = "searching"
    /\ UNCHANGED << world, config, grid_config, query, path_result,
                    next_position, cost_map, defender_states, entry_states,
                    velocity_commands, returned >>

\* one round of the while loop: the pop, the goal test and the for loop over
\* the neighbours of the popped node, or the exit on an empty open set
Round ==
    /\ last_call = "searching"
    /\ search.result = << >>
    /\ search' = SearchRound(query.goal, query.cost_map, grid_config, search)
    /\ IF search.open_set = << >>
       THEN UNCHANGED << expanded, inserted >>
       ELSE \E popped \in { heap_pop(search.open_set) } :
               IF popped.item.position = query.goal
               THEN UNCHANGED << expanded, inserted >>
               ELSE /\ expanded' = Append(expanded, popped.item.position)
                    /\ inserted' = inserted \o PushedBy(popped.item,
                                                        popped.data,
                                                        search'.open_set)
    /\ UNCHANGED << world, config, grid_config, query, path_result,
                    next_position, cost_map, last_call, defender_states,
                    entry_states, velocity_commands, returned >>

\* astar_pathfind returns the result its loop ended with
Return ==
    /\ last_call = "searching"
    /\ search.result # << >>
    /\ path_result' = search.result[1]
    /\ last_call' = "astar"
    /\ UNCHANGED << world, config, grid_config, query, next_position, cost_map,
                    defender_states, entry_states, velocity_commands,
                    returned, loop_vars >>

LoopNext == EarlyReturn \/ Begin \/ Round \/ Return \/ Requery

LoopSpec == LoopInit /\ [][LoopNext]_vars

\* the call runs on: a round that can be taken is taken, and a result that
\* is ready is returned
LoopLive == LoopSpec /\ WF_vars(Round) /\ WF_vars(Return)

(***************************************************************************)
(* Direct calls of the geometry kernel                                     *)
(***************************************************************************)

\* the defender positions of the direct calls
KernelDefPos == { P(0, 0), P(1, -2) }

\* the offsets from the defender to the intruder: along the axes, along
\* directions with a rational unit vector, and along the diagonal
KernelOffsets == { P(4, 0), P(0, 3), P(3, 4), P(-4, -3), P(1, 1), P(2, -1) }

\* the speed ratios: slower defenders, equal speeds, a faster defender
KernelRatios ==
    { One \div 4, One \div 2, (3 * One) \div 4, One, 2 * One }

\* the arguments of calculate_apollonian_circle
ApollonianQueries ==
    { [call |-> "apollonian",
       defender_pos |-> d,
       intruder_pos |-> Point(d.x + o.x, d.y + o.y),
       ratio |-> k] :
        d \in KernelDefPos, o \in KernelOffsets, k \in KernelRatios }

\* the circles of the segment queries: the circle of the test, one off
\* centre, and an infinite one
SegmentCircles ==
    { Circle(P(0, 0), 2 * One), Circle(P(1, 1), 3 * One),
      Circle(P(0, 0), INFINITY) }

\* the end points of the segment queries: the points of the test, points
\* inside and outside the circles, and two points 6e-3 apart on either side
\* of the first circle
SegmentPoints ==
    { P(-3, 0), P(3, 0), P(-3, 3), P(-1, 3), P(0, 0), P(1, 0), P(5, 4),
      Point(19970, 0), Point(20030, 0) }

\* the arguments of calculate_line_segment_circle_intersection
SegmentQueries ==
    { [call |-> "segment", p1 |-> a, p2 |-> b, circle |-> c] :
        a \in SegmentPoints, b \in SegmentPoints, c \in SegmentCircles }

\* the dominance circles of the overlap queries, around a protected zone of
\* radius 2 at the origin: circles that cross it, one of them inside another,
\* one on the far side, and two that do not reach the zone
OverlapCircles ==
    { Circle(P(3, 0), 2 * One), Circle(P(3, 0), (3 * One) \div 2),
      Circle(P(2, 1), 2 * One), Circle(P(-3, 0), 2 * One),
      Circle(P(5, 0), (5 * One) \div 2), Circle(P(8, 0), One),
      Circle(P(3, 0), INFINITY) }

\* the arguments of calculate_overlap_arc; the two circles may be the same
\* circle (two defenders at one position)
OverlapQueries ==
    { [call |-> "overlap", defender1_circle |-> a, defender2_circle |-> b,
       protected_zone |-> Circle(P(0, 0), 2 * One)] :
        a \in OverlapCircles, b \in OverlapCircles }

KernelQueries == ApollonianQueries \cup SegmentQueries \cup OverlapQueries

KernelInit ==
    /\ world = QuietWorld
    /\ config = SlowDefender
    /\ grid_config = Grid
    /\ query \in KernelQueries
    /\ defender_states = << >>
    /\ entry_states = << >>
    /\ velocity_commands = << >>
    /\ cost_map = << >>
    /\ last_call = "none"
    /\ path_result = << >>
    /\ next_position = << >>
    /\ returned = << >>
    /\ search = << >>
    /\ expanded = << >>
    /\ inserted = << >>

\* what a direct kernel call leaves alone
kernel_frame ==
    << world, config, grid_config, query, defender_states, entry_states,
       velocity_commands, cost_map, path_result, next_position, loop_vars >>

\* one call of interception_core's calculate_apollonian_circle
Apollonian ==
    /\ query.call = "apollonian"
    /\ returned' = calculate_apollonian_circle(query.defender_pos,
                                               query.intruder_pos, query.ratio)
    /\ last_call' = "apollonian"
    /\ UNCHANGED kernel_frame

\* one call of calculate_line_segment_circle_intersection
SegmentIntersection ==
    /\ query.call = "segment"
    /\ returned' = calculate_line_segment_circle_intersection(
                       query.p1, query.p2, query.circle)
    /\ last_call' = "segment"
    /\ UNCHANGED kernel_frame

\* one call of calculate_overlap_arc
OverlapArc ==
    /\ query.call = "overlap"
    /\ returned' = calculate_overlap_arc(query.defender1_circle,
                                         query.defender2_circle,
                                         query.protected_zone)
    /\ last_call' = "overlap"
    /\ UNCHANGED kernel_frame

\* one call of the top-level crate's calculate_apollonian_circle
LegacyApollonian ==
    /\ query.call = "apollonian"
    /\ returned' = legacy_calculate_apollonian_circle(
                       query.defender_pos, query.intruder_pos, query.ratio)
    /\ last_call' = "legacy_apollonian"
    /\ UNCHANGED kernel_frame

KernelNext ==
    Apollonian \/ LegacyApollonian \/ SegmentIntersection \/ OverlapArc

KernelSpec == KernelInit /\ [][KernelNext]_vars

(***************************************************************************)
(* What the last call saw                                                  *)
(***************************************************************************)

\* the number of defenders of the snapshot
NDef == Len(world.defenders)

\* the Apollonian circle of defender i in the snapshot
Apo(i) ==
    calculate_apollonian_circle(world.defenders[i].position,
                                world.intruder.position, speed_ratio(config))

\* the first point where the segment from the intruder to the zone centre
\* meets defender i's Apollonian circle: << >> or <<point>>
SegmentHit(i) ==
    calculate_line_segment_circle_intersection(
        world.intruder.position, world.protected_zone.center, Apo(i))

\* the state defender i had on entry to the last call; a defender without an
\* entry counts as Travel
EntryState(i) ==
    IF i <= Len(entry_states) THEN entry_states[i] ELSE "Travel"

\* the state the last call gave defender i: the caller's vector after
\* get_defender_velocity_commands_with_states, the fresh vector's state after
\* the legacy entry
EffState(i) ==
    IF last_call = "with_states" THEN defender_states[i]
    ELSE determine_next_control_state("Travel", Apo(i), world.protected_zone,
                                      world.intruder.position,
                                      world.protected_zone.center)

\* the image of the tolerance 1e-10 on velocities: a few steps of the grid
Tol == 4

\* v points along d: the cross product vanishes up to rounding and the dot
\* product is positive
Aligned(v, d) ==
    /\ NAN \notin {v.x, v.y, d.x, d.y}
    /\ Abs(Mul(v.x, d.y) - Mul(v.y, d.x)) <= Mul(Tol, Abs(d.x) + Abs(d.y)) + Tol
    /\ Mul(v.x, d.x) + Mul(v.y, d.y) > 0

\* |v| is speed up to rounding
HasSpeed(v, speed) ==
    magnitude(v) # NAN /\ Abs(magnitude(v) - speed) <= Tol

\* the circle test of the FSM written out: both radii finite and the centre
\* distance at most the sum of the radii
ZoneReached(i) ==
    LET a == Apo(i)
        z == world.protected_zone
    IN  /\ a.radius # INFINITY
        /\ z.radius # INFINITY
        /\ Lte(distance_to(a.center, z.center), Add(a.radius, z.radius))

(***************************************************************************)
(* Properties of the controller                                            *)
(***************************************************************************)

\* C1: Intercept is absorbing. A defender whose state is Intercept keeps it
\* over every step: a call of get_defender_velocity_commands_with_states
\* leaves the entry at Intercept whatever the geometry, and no other step
\* touches the vector.
C1_InterceptAbsorbing ==
    [][\A i \in 1..Len(defender_states) :
          defender_states[i] = "Intercept"
              => /\ i <= Len(defender_states')
                 /\ defender_states'[i] = "Intercept"]_vars

\* a defender that entered the call in Intercept and left it in Intercept
\* although the segment misses its (finite) circle and the circle is away from
\* the zone
C1_Witness ==
    /\ last_call = "with_states"
    /\ \E i \in 1..NDef :
          /\ i <= Len(entry_states)
          /\ entry_states[i] = "Intercept"
          /\ Apo(i).radius \notin {INFINITY, NAN}
          /\ SegmentHit(i) = << >>
          /\ ~ZoneReached(i)
          /\ defender_states[i] = "Intercept"

\* C2: Intercept has strict priority. After a call, every defender whose
\* Apollonian circle is met by the segment from the intruder to the zone
\* centre is in Intercept, whatever its previous state and whether or not the
\* circle also intersects the zone.
C2_InterceptPriority ==
    last_call = "with_states"
        => \A i \in 1..NDef :
              SegmentHit(i) # << >> => defender_states[i] = "Intercept"

\* a defender that was in Engage, whose circle intersects the zone and is
\* met by the segment, and that the call moved to Intercept
C2_Witness ==
    /\ last_call = "with_states"
    /\ \E i \in 1..NDef :
          /\ i <= Len(entry_states)
          /\ entry_states[i] = "Engage"
          /\ SegmentHit(i) # << >>
          /\ ZoneReached(i)
          /\ defender_states[i] = "Intercept"

\* C3: for a defender that was in Travel or Engage (or had no entry) and
\* whose circle the segment misses, the next state is Engage exactly when
\* the circle intersects the zone and Travel otherwise, whichever of the two
\* the previous state was.
C3_EngageIffZone ==
    last_call = "with_states"
        => \A i \in 1..NDef :
              (EntryState(i) \in {"Travel", "Engage"} /\ SegmentHit(i) = << >>)
                  => defender_states[i] =
                         IF ZoneReached(i) THEN "Engage" ELSE "Travel"

\* a defender that was in Engage and fell back to Travel: its (finite) circle
\* no longer reaches the zone
C3_Witness ==
    /\ last_call = "with_states"
    /\ \E i \in 1..NDef :
          /\ i <= Len(entry_states)
          /\ entry_states[i] = "Engage"
          /\ Apo(i).radius \notin {INFINITY, NAN}
          /\ SegmentHit(i) = << >>
          /\ ~ZoneReached(i)
          /\ defender_states[i] = "Travel"

\* C4: every returned velocity has magnitude at most defender_speed (up to
\* the tolerance) in all three states; a Travel or Intercept velocity has
\* magnitude defender_speed or is zero; the k-th velocity is the one of the
\* k-th defender, one per defender.
C4_SpeedBound ==
    last_call \in {"with_states", "legacy"}
        => /\ Len(velocity_commands) = NDef
           /\ \A i \in 1..NDef :
                 LET v == velocity_commands[i]
                 IN  /\ Lte(magnitude(v), config.defender_speed + Tol)
                     /\ EffState(i) \in {"Travel", "Intercept"}
                            => (v = Point(0, 0) \/ HasSpeed(v, config.defender_speed))
                     /\ v = StateVelocity(world, config, i, EffState(i), Apo(i))

\* C5: the state vector only grows. After a call its length is the larger of
\* its length on entry and the number of defenders, the entries past the
\* last defender are the ones found on entry, and a defender without an entry
\* gets the state and the velocity it would get after Travel.
C5_VectorGrowsOnly ==
    last_call = "with_states"
        => /\ Len(defender_states) = Max(Len(entry_states), NDef)
           /\ \A i \in (NDef + 1)..Len(entry_states) :
                 defender_states[i] = entry_states[i]
           /\ \A i \in (Len(entry_states) + 1)..NDef :
                 LET travel == determine_next_control_state(
                                   "Travel", Apo(i), world.protected_zone,
                                   world.intruder.position,
                                   world.protected_zone.center)
                 IN  /\ defender_states[i] = travel
                     /\ velocity_commands[i] =
                            StateVelocity(world, config, i, travel, Apo(i))

\* a call with a vector longer than the defenders whose last entry is not
\* Travel
C5_Witness ==
    /\ last_call = "with_states"
    /\ Len(entry_states) > NDef
    /\ entry_states[Len(entry_states)] # "Travel"
    /\ Len(defender_states) = Len(entry_states)

\* the scenario of the integration test: one defender at (-3,0), the intruder
\* at (10,0), the zone of radius 2 at the origin, speeds 2 and 4, and a call
\* that found defender 1 in Travel
InS1 ==
    /\ NDef = 1
    /\ world.defenders[1].position = P(-3, 0)
    /\ world.intruder.position = P(10, 0)
    /\ world.protected_zone = Circle(P(0, 0), 2 * One)
    /\ config.defender_speed = 2 * One
    /\ config.intruder_speed = 4 * One
    /\ \/ last_call = "legacy"
       \/ last_call = "with_states" /\ EntryState(1) = "Travel"

\* the velocity of defender 1 is no longer than 2 and points from the
\* Apollonian centre to the origin
S1Velocity ==
    /\ Lte(magnitude(velocity_commands[1]), 2 * One + Tol)
    /\ Aligned(velocity_commands[1],
               Point(0 - Apo(1).center.x, 0 - Apo(1).center.y))

\* C6 as stated: in S1 one call from Travel leaves the defender in Travel
\* with a velocity of magnitude at most 2 from the Apollonian centre toward
\* the origin.
C6_S1StaysTravel ==
    InS1 => (EffState(1) = "Travel" /\ S1Velocity)

\* C6: in S1 one call from Travel moves the defender to Intercept (the
\* segment from the intruder to the origin meets the Apollonian circle), and
\* the returned velocity has magnitude at most 2 and points from the
\* Apollonian centre toward the origin.
C6_S1Intercepts ==
    InS1 => (EffState(1) = "Intercept" /\ SegmentHit(1) # << >> /\ S1Velocity)

\* S1 after a call that kept the state: the defender is in Intercept and
\* moves along +x at speed 2
C6_Witness ==
    /\ InS1
    /\ last_call = "with_states"
    /\ defender_states[1] = "Intercept"
    /\ velocity_commands[1] = Point(2 * One, 0)

\* the state and the velocity defender i gets from the snapshot alone, with
\* Travel as its previous state
FreshState(i) ==
    determine_next_control_state("Travel", Apo(i), world.protected_zone,
                                 world.intruder.position,
                                 world.protected_zone.center)

FreshVelocity(i) == StateVelocity(world, config, i, FreshState(i), Apo(i))

\* C7: the legacy entry keeps no memory. What it returns is what
\* get_defender_velocity_commands_with_states returns for a fresh all-Travel
\* vector of defender-count length: defender by defender, the velocity of the
\* state that follows Travel in the snapshot. It depends on the snapshot and
\* the configuration only, and the caller's vector is not touched.
C7_LegacyStateless ==
    last_call = "legacy"
        => /\ velocity_commands =
                  get_defender_velocity_commands_with_states(
                      world, [i \in 1..NDef |-> "Travel"], config).velocities
           /\ \A i \in 1..NDef : velocity_commands[i] = FreshVelocity(i)
           /\ defender_states = entry_states

\* a legacy call for a defender that an earlier call left in Intercept and
\* whose circle the segment now misses: the legacy velocity is not the zero
\* velocity of a paused Intercept
C7_Witness ==
    /\ last_call = "legacy"
    /\ \E i \in 1..NDef :
          /\ i <= Len(defender_states)
          /\ defender_states[i] = "Intercept"
          /\ SegmentHit(i) = << >>
          /\ velocity_commands[i] # Point(0, 0)

\* C8: a defender in Intercept whose circle the segment misses on this call
\* gets the zero velocity and stays in Intercept; it gets a non-zero velocity
\* only when the segment meets the circle at a point other than its own
\* position, and that velocity has magnitude defender_speed and points from
\* the defender to the first intersection point.
C8_InterceptPauses ==
    last_call = "with_states"
        => \A i \in 1..NDef :
              LET v == velocity_commands[i]
                  pos == world.defenders[i].position
              IN  /\ (EntryState(i) = "Intercept" /\ SegmentHit(i) = << >>)
                         => (defender_states[i] = "Intercept" /\ v = Point(0, 0))
                  /\ (defender_states[i] = "Intercept" /\ v # Point(0, 0))
                         => /\ SegmentHit(i) # << >>
                            /\ SegmentHit(i)[1] # pos
                            /\ HasSpeed(v, config.defender_speed)
                            /\ Aligned(v, Point(SegmentHit(i)[1].x - pos.x,
                                                SegmentHit(i)[1].y - pos.y))

\* a defender kept in Intercept and paused because the segment misses its
\* (finite) circle, although the circle is away from the zone centre
C8_Witness ==
    /\ last_call = "with_states"
    /\ \E i \in 1..NDef :
          /\ i <= Len(entry_states)
          /\ entry_states[i] = "Intercept"
          /\ Apo(i).radius \notin {INFINITY, NAN}
          /\ Apo(i).center # world.protected_zone.center
          /\ SegmentHit(i) = << >>
          /\ defender_states[i] = "Intercept"
          /\ velocity_commands[i] = Point(0, 0)

\* the points the snapshot and the grid offer to contains_point: the agents,
\* the zone centre and the centres of the grid cells
ProbePoints ==
    { world.intruder.position, world.protected_zone.center }
        \cup { world.defenders[i].position : i \in 1..NDef }
        \cup { to_world_coords(GridNode(r, c), Grid) :
                 r \in 0..(Grid.height - 1), c \in 0..(Grid.width - 1) }

\* C9: with a speed ratio within 1e-10 of 1 the Apollonian circle has an
\* infinite radius and triggers nothing: the segment test returns none,
\* intersects and contains_point are false, the coverage arc is 0, a defender
\* that was in Travel or Engage goes to Travel, and generate_threat_map
\* leaves every cell at the base cost.
C9_InfiniteRadiusInert ==
    Abs(speed_ratio(config) - One) < EPS
        => /\ \A i \in 1..NDef :
                 /\ Apo(i).radius = INFINITY
                 /\ SegmentHit(i) = << >>
                 /\ ~intersects(Apo(i), world.protected_zone)
                 /\ ~intersects(world.protected_zone, Apo(i))
                 /\ \A p \in ProbePoints : ~contains_point(Apo(i), p)
                 /\ calculate_coverage_arc(Apo(i), world.protected_zone) = 0
                 /\ (last_call = "with_states" /\ EntryState(i) # "Intercept")
                        => defender_states[i] = "Travel"
           /\ last_call = "threat_map"
                  => \A r \in 0..(Grid.height - 1), c \in 0..(Grid.width - 1) :
                        cost_map[r][c] = Grid.base_cost

\* equal speeds, and a defender that was in Engage and that the call sent
\* back to Travel although the midpoint of defender and intruder is within
\* the zone radius of the zone centre
C9_Witness ==
    /\ Abs(speed_ratio(config) - One) < EPS
    /\ last_call = "with_states"
    /\ \E i \in 1..NDef :
          /\ i <= Len(entry_states)
          /\ entry_states[i] = "Engage"
          /\ defender_states[i] = "Travel"
          /\ Lte(distance_to(Apo(i).center, world.protected_zone.center),
                 world.protected_zone.radius)

\* the vector from defender i's Apollonian centre to the zone centre
ToZone(i) ==
    Point(Sub(world.protected_zone.center.x, Apo(i).center.x),
          Sub(world.protected_zone.center.y, Apo(i).center.y))

\* C10: a defender in Travel gets defender_speed times the unit vector from
\* the centre of its Apollonian circle to the zone centre, and the zero
\* vector when the two centres coincide.
C10_TravelVelocity ==
    last_call \in {"with_states", "legacy"}
        => \A i \in 1..NDef :
              EffState(i) = "Travel"
                  => IF ToZone(i) = Point(0, 0)
                     THEN velocity_commands[i] = Point(0, 0)
                     ELSE /\ HasSpeed(velocity_commands[i], config.defender_speed)
                          /\ Aligned(velocity_commands[i], ToZone(i))

(***************************************************************************)
(* The search: claims about astar_pathfind                                 *)
(***************************************************************************)

\* the node lies on the driver's grid
InGrid(n) == is_valid_grid_position(n.row, n.col, grid_config)

\* the cells of the driver's grid
Cells ==
    { GridNode(r, c) : r \in 0..(grid_config.height - 1),
                       c \in 0..(grid_config.width - 1) }

\* the number of steps between the start and the goal of the query
QuerySteps == manhattan_distance(query.start, query.goal) \div One

\* the query's cost map holds one finite cost of at least 1 everywhere
UniformQuery ==
    /\ \A n \in Cells : query.cost_map[n.row][n.col] = query.cost_map[0][0]
    /\ query.cost_map[0][0] >= One
    /\ query.cost_map[0][0] # INFINITY

\* C11: on a cost map with one finite cost c >= 1 in every cell, a search
\* between two cells of the grid finds a path of |drow| + |dcol| + 1 nodes
\* from the start to the goal, at cost c * (|drow| + |dcol|).
C11_UniformManhattan ==
    (/\ last_call = "astar"
     /\ InGrid(query.start) /\ InGrid(query.goal)
     /\ UniformQuery)
        => /\ path_result.found
           /\ Len(path_result.path) = QuerySteps + 1
           /\ path_result.path[1] = query.start
           /\ path_result.path[Len(path_result.path)] = query.goal
           /\ path_result.cost = query.cost_map[0][0] * QuerySteps

\* scenario S5: the 5 x 5 grid at cost 1, searched from (0,0) to (4,4), gave
\* 9 nodes at cost 8
C11_Witness ==
    /\ last_call = "astar"
    /\ grid_config = WideGrid
    /\ UniformQuery
    /\ query.cost_map[0][0] = One
    /\ query.start = GridNode(0, 0)
    /\ query.goal = GridNode(4, 4)
    /\ path_result.found
    /\ Len(path_result.path) = 9
    /\ path_result.cost = 8 * One

\* the 3 x 3 cost map of scenario S6: +infinity everywhere but in cell (1,0)
BlockedMap ==
    [r \in 0..2 |-> [c \in 0..2 |->
        IF r = 1 /\ c = 0 THEN One ELSE INFINITY]]

\* C12: a PathResult of astar_pathfind or calculate_intruder_full_path with
\* found = false has an empty path and cost 0.
C12_UnfoundIsEmpty ==
    (/\ last_call \in {"astar", "full_path"}
     /\ ~path_result.found)
        => /\ path_result.path = << >>
           /\ path_result.cost = 0

\* scenario S6: the search from the only finite cell of the 3 x 3 map to
\* (1,2) came back unfound
C12_Witness ==
    /\ last_call = "astar"
    /\ grid_config = SmallGrid
    /\ query.cost_map = BlockedMap
    /\ query.start = GridNode(1, 0)
    /\ query.goal = GridNode(1, 2)
    /\ ~path_result.found

\* the cost of entering cell n on the query's cost map
CellCost(n) == query.cost_map[n.row][n.col]

\* the cells one step away from n
Adjacent(n) ==
    { m \in Cells : Abs(m.row - n.row) + Abs(m.col - n.col) = 1 }

\* the least element of a non-empty set of numbers
Least(S) == CHOOSE x \in S : \A y \in S : x <= y

\* one sweep over the grid: each cell that can be entered gets the cheapest
\* way of reaching it through a neighbour, if that beats what it has (the
\* merge with the empty function has the sweep computed once, cell by cell)
Sweep(d) ==
    [n \in Cells |->
        IF n = query.start \/ CellCost(n) = INFINITY THEN d[n]
        ELSE Least({ d[n] } \cup { d[m] + CellCost(n) :
                                     m \in { a \in Adjacent(n) : d[a] # INFINITY } })]
      @@ << >>

\* k sweeps
RECURSIVE Sweeps(_, _)
Sweeps(d, k) == IF k = 0 THEN d ELSE Sweeps(Sweep(d), k - 1)

\* the least cost, over the 4-connected paths from the start that enter only
\* finite-cost cells, of the cells entered after the start; INFINITY for a
\* cell that no such path reaches
CheapestTo ==
    Sweeps([n \in Cells |-> IF n = query.start THEN 0 ELSE INFINITY],
           Cardinality(Cells))

\* every cell of the query's cost map costs at least 1 or is blocked
CostsAtLeastOne == \A n \in Cells : CellCost(n) >= One

\* C13: on a cost map whose cells cost at least 1 or +infinity, the cost of
\* a found path is the least cost of any 4-connected path from the start to
\* the goal through finite-cost cells, the start's own cost not counted.
C13_CostIsMinimal ==
    (/\ last_call = "astar"
     /\ path_result.found
     /\ CostsAtLeastOne)
        => path_result.cost = CheapestTo[query.goal]

\* a search on a map with costs of 1 and more that found a path longer than
\* the Manhattan distance: the cheapest way was a detour
C13_Witness ==
    /\ last_call = "astar"
    /\ path_result.found
    /\ CostsAtLeastOne
    /\ Len(path_result.path) > QuerySteps + 1
    /\ path_result.cost = CheapestTo[query.goal]

\* the costs of the cells of a path from its k-th node on, added up
RECURSIVE CostFrom(_, _)
CostFrom(path, k) ==
    IF k > Len(path) THEN 0 ELSE CellCost(path[k]) + CostFrom(path, k + 1)

\* C14: the cost of a found path is the sum of the cost-map entries of its
\* nodes without the first one, on any cost map; a search from a cell to
\* itself returns that cell alone at cost 0.
C14_CostIsPathSum ==
    (last_call = "astar" /\ path_result.found)
        => /\ path_result.cost = CostFrom(path_result.path, 2)
           /\ query.start = query.goal
                  => /\ path_result.path = << query.start >>
                     /\ path_result.cost = 0

\* a found path of three nodes or more that enters a cell costing less than 1
C14_Witness ==
    /\ last_call = "astar"
    /\ path_result.found
    /\ Len(path_result.path) >= 3
    /\ \E k \in 2..Len(path_result.path) : CellCost(path_result.path[k]) < One
    /\ path_result.cost = CostFrom(path_result.path, 2)

(***************************************************************************)
(* The threat map and the planner: claims about the planning calls         *)
(***************************************************************************)

\* the Apollonian circles of the defenders that have a radius: not the
\* infinite one of equal speeds, not the undefined one of a defender standing
\* on the intruder
ThreatDisks ==
    { d \in { Apo(i) : i \in 1..NDef } : d.radius \notin { INFINITY, NAN } }

\* the world centre of a cell
CellCentre(n) == to_world_coords(n, grid_config)

\* the cell's centre lies in the disk of some defender
Threatened(n) == \E d \in ThreatDisks : contains_point(d, CellCentre(n))

\* C15: in the map generate_threat_map returns, every cell whose centre lies
\* in the finite-radius Apollonian disk of a defender costs at least
\* base_cost + threat_penalty.
C15_DiskCellsPenalised ==
    last_call = "threat_map"
        => \A n \in Cells :
              Threatened(n)
                  => cost_map[n.row][n.col]
                         >= grid_config.base_cost + grid_config.threat_penalty

\* C16: in the map generate_threat_map returns, a cell whose centre lies in
\* no defender's disk costs exactly base_cost, no cell costs less, the map
\* has height rows of width columns, and it is what the arguments alone
\* determine, whatever an earlier call returned.
C16_OutsideKeepsBase ==
    last_call = "threat_map"
        => /\ DOMAIN cost_map = 0..(grid_config.height - 1)
           /\ \A r \in DOMAIN cost_map :
                 DOMAIN cost_map[r] = 0..(grid_config.width - 1)
           /\ \A n \in Cells :
                 /\ cost_map[n.row][n.col] >= grid_config.base_cost
                 /\ ~Threatened(n)
                        => cost_map[n.row][n.col] = grid_config.base_cost
           /\ cost_map = generate_threat_map(world, grid_config, config)

\* a map with a penalised cell next to a cell outside every disk that kept
\* base_cost, on the grid with cells wider than high
C16_Witness ==
    /\ last_call = "threat_map"
    /\ grid_config = FlatGrid
    /\ \E n, m \in Cells :
          /\ Abs(n.row - m.row) + Abs(n.col - m.col) = 1
          /\ cost_map[n.row][n.col] > grid_config.base_cost
          /\ ~Threatened(m)
          /\ cost_map[m.row][m.col] = grid_config.base_cost

\* the intruder's own grid cell: << >> when it is off the grid
IntruderCell == to_grid_coords(world.intruder.position, grid_config)

\* the intruder stands inside or on the boundary of the protected zone
IntruderInZone ==
    contains_point(world.protected_zone, world.intruder.position)

\* C17: calculate_intruder_next_position returns a point exactly when
\* calculate_intruder_full_path on the same arguments finds a path of at
\* least 2 nodes; the point is the world centre of the path's node at index
\* 1, a cell 4-adjacent to the intruder's cell; otherwise it returns none.
C17_NextIsSecondNode ==
    last_call = "next_position"
        => LET full == calculate_intruder_full_path(world, grid_config, config)
           IN  /\ next_position # << >>
                      <=> (full.found /\ Len(full.path) >= 2)
               /\ next_position # << >>
                      => /\ next_position
                                = << to_world_coords(full.path[2],
                                                     grid_config) >>
                         /\ IntruderCell # << >>
                         /\ Abs(full.path[2].row - IntruderCell[1].row)
                                + Abs(full.path[2].col - IntruderCell[1].col)
                                = 1
               /\ (\/ IntruderCell = << >>
                   \/ ~full.found
                   \/ Len(full.path) = 1) => next_position = << >>

\* a waypoint was returned for an intruder that had already been moved to an
\* earlier waypoint, on a path of more than 2 nodes
C17_Witness ==
    /\ last_call = "next_position"
    /\ next_position # << >>
    /\ world.intruder.position \notin PlanIntPos
    /\ Len(calculate_intruder_full_path(world, grid_config, config).path) > 2

\* a threat map that is impassable at the intruder's own cell and base_cost
\* elsewhere
OwnCellBlocked ==
    [row \in 0..(grid_config.height - 1) |->
        [col \in 0..(grid_config.width - 1) |->
            IF << GridNode(row, col) >> = IntruderCell
            THEN INFINITY
            ELSE grid_config.base_cost]]

\* C18: for an intruder inside or on the boundary of the protected zone and
\* inside the grid, the goal is the intruder's own cell on any threat map,
\* the full path is that one cell with cost 0 and found = true, and there is
\* no next position.
C18_InZoneStays ==
    (IntruderInZone /\ IntruderCell # << >>)
        => /\ \A m \in { generate_threat_map(world, grid_config, config),
                         OwnCellBlocked } :
                 /\ find_best_goal_target(world, grid_config, m)
                        = IntruderCell
                 /\ astar_pathfind(IntruderCell[1], IntruderCell[1], m,
                                   grid_config)
                        = PathResult(IntruderCell, 0, TRUE)
           /\ last_call = "full_path"
                  => path_result = PathResult(IntruderCell, 0, TRUE)
           /\ last_call = "next_position" => next_position = << >>

\* the full path of an intruder on the boundary of a zone whose centre is off
\* the grid
C18_Witness ==
    /\ last_call = "full_path"
    /\ IntruderInZone
    /\ world.intruder.position # world.protected_zone.center
    /\ to_grid_coords(world.protected_zone.center, grid_config) = << >>
    /\ path_result = PathResult(IntruderCell, 0, TRUE)

\* the protected zone's centre maps into the grid
ZoneCentreCell == to_grid_coords(world.protected_zone.center, grid_config)

\* the grid cells whose world centres lie inside the protected zone
ZoneCells ==
    { n \in Cells : contains_point(world.protected_zone, CellCentre(n)) }

\* n comes before m in ascending row, then ascending column
Before(n, m) == n.row < m.row \/ (n.row = m.row /\ n.col < m.col)

\* C19: for an intruder outside the zone and a zone centre on the grid, the
\* goal is the first, in ascending row then column, of the cheapest cells
\* whose centres lie inside the zone, and the zone centre's cell when no cell
\* centre lies inside the zone.
C19_GoalIsCheapestInZone ==
    (/\ last_call \in {"full_path", "next_position"}
     /\ ~IntruderInZone
     /\ ZoneCentreCell # << >>)
        => LET map == generate_threat_map(world, grid_config, config)
               goal == find_best_goal_target(world, grid_config, map)
           IN  IF ZoneCells = {}
               THEN goal = ZoneCentreCell
               ELSE /\ goal # << >>
                    /\ goal[1] \in ZoneCells
                    /\ \A m \in ZoneCells :
                          /\ map[goal[1].row][goal[1].col]
                                 <= map[m.row][m.col]
                          /\ map[m.row][m.col] = map[goal[1].row][goal[1].col]
                                 => (m = goal[1] \/ Before(goal[1], m))

\* the last planning call returned the empty unfound result
PlanningUnfound ==
    /\ last_call = "full_path" => path_result = PathResult(<< >>, 0, FALSE)
    /\ last_call = "next_position" => next_position = << >>

\* C20 as stated: whenever the zone centre maps outside the grid, planning
\* returns the empty unfound result and no next position, for every intruder
\* position.
C20_OffGridZoneUnfound ==
    (/\ last_call \in {"full_path", "next_position"}
     /\ ZoneCentreCell = << >>)
        => PlanningUnfound

\* C20: whenever the zone centre maps outside the grid, planning returns the
\* empty unfound result and no next position, unless the intruder is inside
\* the protected zone and inside the grid.
C20_OffGridZoneUnfoundOutside ==
    (/\ last_call \in {"full_path", "next_position"}
     /\ ZoneCentreCell = << >>
     /\ ~(IntruderInZone /\ IntruderCell # << >>))
        => PlanningUnfound

\* the full path of an intruder on the grid and outside a zone whose centre
\* is off the grid
C20_Witness ==
    /\ last_call = "full_path"
    /\ ZoneCentreCell = << >>
    /\ IntruderCell # << >>
    /\ ~IntruderInZone
    /\ path_result = PathResult(<< >>, 0, FALSE)

(***************************************************************************)
(* The geometry kernel called directly                                     *)
(***************************************************************************)

\* The rounding allowance of the direct-call properties: the kernel rounds
\* every operation to 1e-4 and multiplies rounded unit vectors by lengths of
\* up to 15 units, so the allowance of the velocities is widened fivefold.
KernelTol == 5 * Tol

\* a and b agree up to the rounding allowance
Near(a, b) == a # NAN /\ b # NAN /\ Abs(a - b) <= KernelTol

\* the last call was calculate_apollonian_circle with D # I and 0 < k < 1
SlowApollonian ==
    /\ last_call = "apollonian"
    /\ query.defender_pos # query.intruder_pos
    /\ 0 < query.ratio /\ query.ratio < One

\* P1 = D + (k / (1 + k)) (I - D), the point of the segment DI with
\* |P1 D| = k |P1 I|
ApoNear ==
    LET k == query.ratio
        D == query.defender_pos
        I == query.intruder_pos
    IN  Point(D.x + Div(Mul(k, I.x - D.x), One + k),
              D.y + Div(Mul(k, I.y - D.y), One + k))

\* P2 = D - (k / (1 - k)) (I - D), the point beyond D with |P2 D| = k |P2 I|
ApoFar ==
    LET k == query.ratio
        D == query.defender_pos
        I == query.intruder_pos
    IN  Point(D.x - Div(Mul(k, I.x - D.x), One - k),
              D.y - Div(Mul(k, I.y - D.y), One - k))

\* C21: for D # I and 0 < k < 1 the circle of calculate_apollonian_circle
\* has the midpoint of P1 P2 as centre and half |P1 P2| as radius, passes
\* through P1 and P2, holds the defender strictly inside and the intruder
\* strictly outside; for D = (0,0), I = (4,0), k = 1/2 it is centre
\* (-4/3, 0), radius 8/3, through (4/3, 0) and (-4, 0).
C21_ApollonianThroughP1P2 ==
    SlowApollonian
        => /\ Near(2 * returned.center.x, ApoNear.x + ApoFar.x)
           /\ Near(2 * returned.center.y, ApoNear.y + ApoFar.y)
           /\ Near(2 * returned.radius, distance_to(ApoNear, ApoFar))
           /\ Near(distance_to(returned.center, ApoNear), returned.radius)
           /\ Near(distance_to(returned.center, ApoFar), returned.radius)
           /\ distance_to(returned.center, query.defender_pos)
                  < returned.radius - KernelTol
           /\ distance_to(returned.center, query.intruder_pos)
                  > returned.radius + KernelTol
           /\ (/\ query.defender_pos = P(0, 0)
               /\ query.intruder_pos = P(4, 0)
               /\ query.ratio = One \div 2)
                  => /\ Near(3 * returned.center.x, -4 * One)
                     /\ returned.center.y = 0
                     /\ Near(3 * returned.radius, 8 * One)
                     /\ Near(distance_to(returned.center,
                                         Point((4 * One) \div 3, 0)),
                             returned.radius)
                     /\ Near(distance_to(returned.center, P(-4, 0)),
                             returned.radius)

\* the circle of the basic test: D = (0,0), I = (4,0), k = 1/2
C21_Witness ==
    /\ SlowApollonian
    /\ query.defender_pos = P(0, 0)
    /\ query.intruder_pos = P(4, 0)
    /\ query.ratio = One \div 2
    /\ returned.radius \in (26667 - KernelTol)..(26667 + KernelTol)

\* the point of the query's segment nearest to the circle's centre
NearestOnSegment ==
    LET p1 == query.p1
        ex == query.p2.x - p1.x
        ey == query.p2.y - p1.y
        len2 == Mul(ex, ex) + Mul(ey, ey)
        dot == Mul(query.circle.center.x - p1.x, ex)
                   + Mul(query.circle.center.y - p1.y, ey)
        t == IF query.p1 = query.p2 \/ dot <= 0 THEN 0
             ELSE IF dot >= len2 THEN One
             ELSE Div(dot, len2)
    IN  Point(p1.x + Mul(t, ex), p1.y + Mul(t, ey))

\* the distance of a point from the centre of the query's circle
FromCentre(pt) == distance_to(query.circle.center, pt)

\* the farther end of the segment, seen from the centre
FarEnd == Max(FromCentre(query.p1), FromCentre(query.p2))

\* the segment has a point on the circle, by more than the rounding allowance:
\* it comes inside the radius and reaches outside it
SegmentMeetsCircle ==
    /\ query.circle.radius # INFINITY
    /\ FromCentre(NearestOnSegment) < query.circle.radius - KernelTol
    /\ FarEnd > query.circle.radius + KernelTol

\* the segment has no point on the circle, by more than the rounding
\* allowance: it stays strictly inside or strictly outside
SegmentMissesCircle ==
    /\ query.circle.radius # INFINITY
    /\ \/ FromCentre(NearestOnSegment) > query.circle.radius + KernelTol
       \/ FarEnd < query.circle.radius - KernelTol

\* pt lies on the query's segment, up to the rounding allowance: within the
\* bounding box of the ends and off the line through them by no more than
\* the allowance
OnSegment(pt) ==
    LET p1 == query.p1
        p2 == query.p2
        cross == Mul(p2.x - p1.x, pt.y - p1.y) - Mul(p2.y - p1.y, pt.x - p1.x)
    IN  /\ Min(p1.x, p2.x) - KernelTol <= pt.x
        /\ pt.x <= Max(p1.x, p2.x) + KernelTol
        /\ Min(p1.y, p2.y) - KernelTol <= pt.y
        /\ pt.y <= Max(p1.y, p2.y) + KernelTol
        /\ Abs(cross) <= Mul(KernelTol, distance_to(p1, p2)) + 1

\* the half-way point between p1 and pt
HalfWay(pt) ==
    Point((query.p1.x + pt.x) \div 2, (query.p1.y + pt.y) \div 2)

\* C22: calculate_line_segment_circle_intersection returns a point exactly
\* when the segment has a point on the circle; the point is on the segment
\* and on the circle and is the first such point from p1 (nothing between p1
\* and it is on the other side of the circle); it returns none for a segment
\* strictly inside or strictly outside, for p1 = p2 and for an infinite
\* radius.
C22_SegmentHitIffRoot ==
    last_call = "segment"
        => /\ SegmentMeetsCircle
                  => /\ returned # << >>
                     /\ OnSegment(returned[1])
                     /\ Near(FromCentre(returned[1]), query.circle.radius)
                     /\ FromCentre(query.p1) > query.circle.radius + KernelTol
                            => FromCentre(HalfWay(returned[1]))
                                   >= query.circle.radius - KernelTol
                     /\ FromCentre(query.p1) < query.circle.radius - KernelTol
                            => FromCentre(HalfWay(returned[1]))
                                   <= query.circle.radius + KernelTol
           /\ SegmentMissesCircle => returned = << >>
           /\ query.p1 = query.p2 => returned = << >>
           /\ query.circle.radius = INFINITY => returned = << >>

(***************************************************************************)
(* The search loop round by round                                          *)
(***************************************************************************)

\* the round-by-round search returns what astar_pathfind returns
LoopAgreesWithCall ==
    last_call = "astar"
        => path_result = astar_pathfind(query.start, query.goal,
                                        query.cost_map, grid_config)

\* C23: in one run of astar_pathfind no node has its neighbours examined
\* more than once: a popped entry for a node of the closed set is filtered
\* out.
C23_ExpandedOnce ==
    last_call = "searching"
        => \A a, b \in DOMAIN expanded : expanded[a] = expanded[b] => a = b

\* C24: a path astar_pathfind returns with found = true starts at start, ends
\* at goal, steps between 4-adjacent cells of the grid, visits no cell twice
\* and enters no cell of cost +infinity (the start cell may cost +infinity).
C24_PathWellFormed ==
    (last_call = "astar" /\ path_result.found)
        => LET path == path_result.path
           IN  /\ path # << >>
               /\ path[1] = query.start
               /\ path[Len(path)] = query.goal
               /\ \A k \in DOMAIN path : InGrid(path[k])
               /\ \A k \in 1..(Len(path) - 1) :
                     Abs(path[k].row - path[k + 1].row)
                         + Abs(path[k].col - path[k + 1].col) = 1
               /\ \A j, k \in DOMAIN path : path[j] = path[k] => j = k
               /\ \A k \in 2..Len(path) : CellCost(path[k]) # INFINITY

\* a found path of at least 4 nodes, longer than the Manhattan route, that
\* leaves a start cell of cost +infinity
C24_Witness ==
    /\ last_call = "astar"
    /\ path_result.found
    /\ Len(path_result.path) >= 4
    /\ CellCost(query.start) = INFINITY
    /\ Len(path_result.path) > QuerySteps + 1

\* C25: for start # goal inside the grid, astar_pathfind returns found = true
\* exactly when a 4-connected path from start to goal exists whose cells
\* after start all have finite cost.
C25_FoundIffReachable ==
    (/\ last_call = "astar"
     /\ InGrid(query.start) /\ InGrid(query.goal)
     /\ query.start # query.goal)
        => (path_result.found <=> CheapestTo[query.goal] # INFINITY)

\* the goal behind a cell of cost +infinity was found by walking around it
C25_Witness ==
    /\ last_call = "astar"
    /\ query.start = GridNode(1, 0)
    /\ query.goal = GridNode(1, 2)
    /\ CellCost(GridNode(1, 1)) = INFINITY
    /\ path_result.found
    /\ Len(path_result.path) = 5

\* the node that following came_from from n leads to in at most k steps
RECURSIVE Root(_, _)
Root(n, k) ==
    IF k = 0 \/ n \notin DOMAIN search.came_from THEN n
    ELSE Root(search.came_from[n], k - 1)

\* the start has no parent and every chain of came_from ends at the start
\* within as many steps as the grid has cells
ChainsEndAtStart ==
    (last_call \in {"searching", "astar"} /\ search # << >>)
        => /\ query.start \notin DOMAIN search.came_from
           /\ \A n \in DOMAIN search.came_from :
                 Root(n, Cardinality(Cells)) = query.start

\* C26: astar_pathfind terminates on every cost map of positive costs, costs
\* below 1 included: a search that has entered its loop returns, and while it
\* runs the start has no parent and came_from has no cycle, so that path
\* reconstruction ends at the start.
C26_SearchTerminates ==
    /\ (last_call = "searching") ~> (last_call = "astar")
    /\ []ChainsEndAtStart

\* a search over a map with costs below 1 that returned after at least 6
\* rounds with the parents of at least 5 nodes recorded
C26_Witness ==
    /\ last_call = "astar"
    /\ search # << >>
    /\ search.result # << >>
    /\ \E n \in Cells : CellCost(n) < One
    /\ Len(expanded) >= 6
    /\ Cardinality(DOMAIN search.came_from) >= 5

\* the place of an open-set entry in the order of the pushes
PushIndex(e) == CHOOSE k \in DOMAIN inserted : inserted[k] = e

\* C27: among the open-set entries with equal f = g + h, the entry that was
\* pushed earlier is popped first: whenever a round pops an entry, no entry
\* of the same f cost still in the open set was pushed before it.
C27_EarlierPushPopsFirst ==
    [][(Round /\ search.open_set # << >>)
          => \A e \in Range(search.open_set) :
                e.f_cost = heap_pop(search.open_set).item.f_cost
                    => PushIndex(heap_pop(search.open_set).item)
                           <= PushIndex(e)]_vars

(***************************************************************************)
(* One defender at a time                                                  *)
(***************************************************************************)

\* the state vectors the last call could have been given instead
OtherEntries == [1..NDef -> ControlState]

\* C28: the new state and the velocity of defender i that
\* get_defender_velocity_commands_with_states returns are those it returns
\* for any other state vector with the same entry for i, on the same world
\* and config; and the call leaves the world snapshot as it was.
C28_PerDefender ==
    /\ [](last_call = "with_states"
            => \A alt \in OtherEntries :
                  LET r == get_defender_velocity_commands_with_states(
                               world, alt, config)
                  IN  \A i \in 1..NDef :
                         alt[i] = EntryState(i)
                             => /\ r.states[i] = defender_states[i]
                                /\ r.velocities[i] = velocity_commands[i])
    /\ [][last_call' = "with_states" => world' = world]_vars

\* a call for two defenders that left them in different states, one of them
\* in Engage, from a state vector the caller had kept
C28_Witness ==
    /\ last_call = "with_states"
    /\ NDef = 2
    /\ entry_states # << >>
    /\ defender_states[1] # defender_states[2]
    /\ "Engage" \in { defender_states[1], defender_states[2] }

\* the coverage arcs of the two circles of an overlap query
Coverage1 ==
    calculate_coverage_arc(query.defender1_circle, query.protected_zone)

Coverage2 ==
    calculate_coverage_arc(query.defender2_circle, query.protected_zone)

\* the distance between the centres and the sum of the radii
CentreDistance ==
    distance_to(query.defender1_circle.center, query.defender2_circle.center)

CombinedRadii == query.defender1_circle.radius + query.defender2_circle.radius

\* the two circles of the query are finite and not disjoint
CirclesMeet ==
    /\ query.defender1_circle.radius # INFINITY
    /\ query.defender2_circle.radius # INFINITY
    /\ CentreDistance <= CombinedRadii

\* C29: for two finite circles that are not disjoint and have positive
\* coverage arcs, calculate_overlap_arc returns f * min(cov_i, cov_j) with
\* f = max(0, (r_i + r_j - dc) / (r_i + r_j)), coincident and nested circles
\* included; it returns 0 when the circles are disjoint or a coverage is 0.
C29_OverlapByCentreDistance ==
    last_call = "overlap"
        => /\ (CirclesMeet /\ Coverage1 > 0 /\ Coverage2 > 0)
                  => returned = Mul(Max(0, Div(CombinedRadii - CentreDistance,
                                               CombinedRadii)),
                                    Min(Coverage1, Coverage2))
           /\ (~CirclesMeet \/ Coverage1 = 0 \/ Coverage2 = 0)
                  => returned = 0

\* the circle interception_core's calculate_apollonian_circle returns for
\* the query of the last call
CoreCircle ==
    calculate_apollonian_circle(query.defender_pos, query.intruder_pos,
                                query.ratio)

\* C30: for D # I and 0 < k < 1 the top-level crate's
\* calculate_apollonian_circle returns the circle interception_core's
\* returns, with equal centre and equal radius (up to rounding), and for
\* k = 1 both return an infinite circle centred on the midpoint of D and I.
C30_SameApollonianCircle ==
    (last_call = "legacy_apollonian"
        /\ query.defender_pos # query.intruder_pos)
        => /\ (0 < query.ratio /\ query.ratio < One)
                  => /\ Near(returned.center.x, CoreCircle.center.x)
                     /\ Near(returned.center.y, CoreCircle.center.y)
                     /\ Near(returned.radius, CoreCircle.radius)
           /\ query.ratio = One
                  => /\ returned.radius = INFINITY
                     /\ CoreCircle.radius = INFINITY
                     /\ returned.center = CoreCircle.center
                     /\ 2 * returned.center.x
                            = query.defender_pos.x + query.intruder_pos.x
                     /\ 2 * returned.center.y
                            = query.defender_pos.y + query.intruder_pos.y

=============================================================================
